---- MODULE Spec2Model ----
(***************************************************************************)
(* Window lifecycle and focus coordination of Snips (Linux build), with    *)
(* the Hyprland D-Bus watchdog.                                            *)
(*                                                                         *)
(* Commands (show/hide/toggle) run one at a time and are modelled step by  *)
(* step; each step is one statement group of the handler.  The toolkit     *)
(* (Tauri / the compositor) is the environment: every toolkit call draws   *)
(* its answer from the set of answers that call can give.  The monitor     *)
(* task of the watchdog runs concurrently with the commands.               *)
(*                                                                         *)
(* Time is kept as the age in ms of each pending watchdog entry, i.e.      *)
(* Instant::now() - start for the Instant the code stores; ages saturate   *)
(* at AgeCap, which lies above the 200 ms deadline.                        *)
(* Option<T> is a sequence of length 0 (None) or 1 (Some).                 *)
(***************************************************************************)
EXTENDS Integers, Sequences, FiniteSets, TLC

VARIABLES
    \* ---- command executor (locals of the running handler) ----
    pc,                 \* position of the running command, "idle" when none
    cmd,                \* the running command
    cur,                \* label of the window the command works on
    origin,             \* "local" (shortcut, tray, frontend) or "dbus"
    created,            \* the window was built by this command
    text,               \* selection captured by show_quick_add_window
    attempts,           \* focus_window_with_backoff: attempts
    delay_ms,           \* focus_window_with_backoff: delay_ms
    success,            \* focus_window_with_backoff: success
    \* ---- toolkit ----
    windows,            \* label -> "none" | "live" | "closing"
    \* ---- process-wide tables of window.rs ----
    wm,                 \* WINDOW_MANAGER_STATE
    prefs,              \* QUICK_WINDOW_PREFS_STATE
    on_top_state,       \* WINDOW_ON_TOP_STATE
    visibility_state,   \* WINDOW_VISIBILITY_STATE
    focus_metrics,      \* FOCUS_METRICS_STATE
    quick_add_capture,  \* QUICK_ADD_CAPTURE_STATE
    counters,           \* WINDOW_COUNTERS_STATE
    focus_counter,      \* metrics.rs FOCUS_COUNTER: (compositor, result) -> count
    snips_metrics,      \* the environment variable SNIPS_METRICS enables metrics
    disable_watchdog,   \* the environment variable SNIPS_DISABLE_DBUS_WATCHDOG is set
    \* ---- dbus_watchdog.rs ----
    wd,                 \* STATE: WatchdogState
    mon,                \* the monitor task: "off" | "spawning" | "reading" | "ended"
    lines,              \* method calls dbus-monitor has printed and the task has not read
    starts,             \* calls of start_watchdog so far
    \* ---- backup scheduler ----
    started_config,     \* config of the BackupScheduler whose start() was called
    managed_config,     \* config of the BackupScheduler kept in BackupSchedulerState
    scheduler_pc,       \* position of the backup loop: "read" or "sleep"
    current_config,     \* the copy of the config the loop read last
    backup_files,       \* backup files in the backup directory
    \* ---- history (not program state) ----
    backup_attempts,    \* calls of backup_database made by the backup loop
    focus_requests,     \* set_focus calls issued by the running focus sequence
    focused_at,         \* first attempt of the running sequence that reported focused, 0 if none
    last_answer,        \* the toolkit's answer to the latest query of the running command
    only_request_errors,\* every attempt of the running sequence so far had its request fail
    focus_warnings,     \* focus-warning events emitted by the running command
    forwarded,          \* success values the running command passed to record_focus_outcome
    supplied,           \* the preferences handed to the latest preference write
    last_op,            \* label -> the latest completed command on that label
    prev_op,            \* label -> the completed command before last_op
    result,             \* outcome of the latest completed command or call
    ops                 \* commands started so far

cmdVars   == <<cmd, cur, origin, created, text>>
loopVars  == <<attempts, delay_ms, success, focus_requests, focused_at, only_request_errors>>
focusVars == <<loopVars, last_answer, focus_warnings, forwarded>>
counterVars == <<counters, focus_counter>>
tableVars == <<on_top_state, visibility_state, focus_metrics, quick_add_capture, counterVars>>
backupVars == <<started_config, managed_config, scheduler_pc, current_config,
                backup_files, backup_attempts>>
envVars   == <<wm, prefs, snips_metrics, disable_watchdog, supplied, backupVars>>
monVars   == <<mon, lines, starts>>
wdVars    == <<wd, monVars>>
histVars  == <<last_op, prev_op, result>>
vars == <<pc, cmdVars, focusVars, windows, tableVars, envVars, wdVars, histVars, ops>>

-----------------------------------------------------------------------------
(* Bounds of the model *)

MaxOps == 2          \* commands started in one behaviour of Spec
MaxWatchdogOps == 1  \* commands started in one behaviour of SpecWatchdog
MaxLines == 2        \* unread dbus-monitor lines
TickMs == 100        \* granularity of time passing outside the sleeps
AgeCap == 210        \* ages saturate here (above DEADLINE)

-----------------------------------------------------------------------------
(* Constants of the program *)

SEARCH_WINDOW_LABEL == "search"
MANAGEMENT_WINDOW_LABEL == "management"
QUICK_ADD_WINDOW_LABEL == "quick-add"
SETTINGS_WINDOW_LABEL == "settings"
Labels == {SEARCH_WINDOW_LABEL, MANAGEMENT_WINDOW_LABEL, QUICK_ADD_WINDOW_LABEL,
           SETTINGS_WINDOW_LABEL}

WindowManager == {"hyprland", "sway", "river", "other"}
TilingManagers == {"hyprland", "sway", "river"}

max_attempts == 5
initial_delay_ms == 20
max_delay_ms == 320
show_settle_ms == 20
DEADLINE == 200
MAX_SAMPLES == 50
MAX_NOTES == 10

None == <<>>
Some(v) == <<v>>
IsSome(o) == Len(o) = 1
Unwrap(o) == o[1]
UnwrapOr(o, d) == IF Len(o) = 1 THEN o[1] ELSE d
OptionBool == {None, Some(TRUE), Some(FALSE)}

Min(a, b) == IF a <= b THEN a ELSE b

-----------------------------------------------------------------------------
(* Quick-window preferences and the floating policy *)

NoOverrides == [w \in WindowManager |-> None]

DefaultPreferences == [float_on_tiling |-> TRUE, per_wm_overrides |-> NoOverrides]

normalize_quick_window_preferences_as_given(preferences, manager) == preferences

normalize_quick_window_preferences_keeping_entry(preferences, manager) ==
    IF manager \in TilingManagers /\ preferences.per_wm_overrides[manager] = None
    THEN [preferences EXCEPT
            !.per_wm_overrides[manager] = Some(preferences.float_on_tiling)]
    ELSE preferences

normalize_quick_window_preferences(preferences, manager) ==
    IF manager \in TilingManagers
    THEN [preferences EXCEPT
            !.per_wm_overrides[manager] = Some(preferences.float_on_tiling)]
    ELSE preferences

quick_windows_should_float_by_preference ==
    UnwrapOr(prefs.per_wm_overrides[wm], prefs.float_on_tiling)

quick_windows_should_float ==
    IF wm \in TilingManagers
    THEN UnwrapOr(prefs.per_wm_overrides[wm], prefs.float_on_tiling)
    ELSE TRUE

expected_on_top_for_label_search_only(label) ==
    IF label = SEARCH_WINDOW_LABEL THEN Some(quick_windows_should_float) ELSE None

expected_on_top_for_label(label) ==
    IF label \in {SEARCH_WINDOW_LABEL, QUICK_ADD_WINDOW_LABEL}
    THEN Some(quick_windows_should_float)
    ELSE None

\* refresh_on_top_state: the new WINDOW_ON_TOP_STATE (set_always_on_top's result is dropped)
refresh_on_top_state(label) ==
    IF IsSome(expected_on_top_for_label(label))
    THEN [on_top_state EXCEPT ![label] = expected_on_top_for_label(label)]
    ELSE on_top_state

-----------------------------------------------------------------------------
(* Expectation tables *)

record_expected_on_top(table, label, expected) == [table EXCEPT ![label] = Some(expected)]

record_visibility_state(table, label, visible) == [table EXCEPT ![label] = Some(visible)]

record_focus_metrics_keep_first(table, label, focus_result) ==
    IF IsSome(table[label]) THEN table ELSE [table EXCEPT ![label] = Some(focus_result)]

\* record_focus_metrics: the insert into FOCUS_METRICS_STATE
record_focus_metrics(table, label, focus_result) == [table EXCEPT ![label] = Some(focus_result)]

\* the values of SNIPS_METRICS: unset, or set to some text
MetricsValues == {None, Some(""), Some("0"), Some("1")}

metrics_enabled(value) == IsSome(value) /\ Unwrap(value) # "" /\ Unwrap(value) # "0"

NoCounters == [focus_success_total |-> 0, focus_failure_total |-> 0]

record_focus_counters_per_attempt(table, focus_result, label, enabled) ==
    IF ~enabled THEN table
    ELSE LET entry == UnwrapOr(table[label], NoCounters)
         IN [table EXCEPT ![label] = Some(
               IF focus_result.success
               THEN [entry EXCEPT !.focus_success_total = @ + 1,
                                  !.focus_failure_total = @ + focus_result.attempts - 1]
               ELSE [entry EXCEPT !.focus_failure_total = @ + focus_result.attempts])]

\* record_focus_counters: the update of WINDOW_COUNTERS_STATE
record_focus_counters(table, focus_result, label, enabled) ==
    IF ~enabled THEN table
    ELSE LET entry == UnwrapOr(table[label], NoCounters)
         IN [table EXCEPT ![label] = Some(
               IF focus_result.success
               THEN [entry EXCEPT !.focus_success_total = @ + 1]
               ELSE [entry EXCEPT !.focus_failure_total = @ + 1])]

ResultLabels == {"success", "failure"}

\* metrics::record_window_focus
record_window_focus(counter, compositor, ok) ==
    [counter EXCEPT ![<<compositor, IF ok THEN "success" ELSE "failure">>] = @ + 1]

on_top_after_create_overlay_only(label) ==
    IF label \in {SEARCH_WINDOW_LABEL, QUICK_ADD_WINDOW_LABEL}
    THEN refresh_on_top_state(label)
    ELSE on_top_state

\* Tables after a window was built: Overlay/Dialog windows take the floating
\* policy and start with expected visibility false, Standard windows are
\* recorded as not always-on-top.
on_top_after_create(label) ==
    IF label \in {SEARCH_WINDOW_LABEL, QUICK_ADD_WINDOW_LABEL}
    THEN refresh_on_top_state(label)
    ELSE record_expected_on_top(on_top_state, label, FALSE)

visibility_after_create(label) ==
    IF label \in {SEARCH_WINDOW_LABEL, QUICK_ADD_WINDOW_LABEL}
    THEN record_visibility_state(visibility_state, label, FALSE)
    ELSE visibility_state

-----------------------------------------------------------------------------
(* Watchdog state and its pure operations *)

Methods == {"ShowQuickAdd", "ShowSearch", "ToggleSearch", "ShowManagement",
            "ReloadTheme", "Introspect"}

method_to_window(method) ==
    CASE method = "ShowQuickAdd" -> Some(QUICK_ADD_WINDOW_LABEL)
      [] method \in {"ShowSearch", "ToggleSearch"} -> Some(SEARCH_WINDOW_LABEL)
      [] method = "ShowManagement" -> Some(MANAGEMENT_WINDOW_LABEL)
      [] method = "ReloadTheme" -> Some(SETTINGS_WINDOW_LABEL)
      [] OTHER -> None

WatchdogDefault ==
    [enabled |-> FALSE, monitor_running |-> FALSE, last_error |-> None,
     last_method |-> None, last_window |-> None, last_latency_ms |-> None,
     last_within_deadline |-> None, success_count |-> 0, deadline_miss_count |-> 0,
     pending |-> [l \in Labels |-> None], latencies |-> <<>>, notes |-> <<>>]

\* d ms pass: every stored Instant is d ms further in the past
AdvanceTime(w, d) ==
    [w EXCEPT !.pending =
        [l \in Labels |-> IF IsSome(w.pending[l])
                          THEN Some(Min(Unwrap(w.pending[l]) + d, AgeCap))
                          ELSE None]]

within_deadline_whatever_focus(latency, ok) == latency <= DEADLINE

within_deadline(latency, ok) == latency <= DEADLINE /\ ok

push_latency_dropping_newest(latencies, latency) ==
    IF Len(latencies) >= MAX_SAMPLES THEN latencies ELSE Append(latencies, latency)

push_latency(latencies, latency) ==
    LET pushed == Append(latencies, latency)
    IN IF Len(pushed) > MAX_SAMPLES THEN Tail(pushed) ELSE pushed

record_focus_outcome_absent_as_now(w, label, ok) ==
    IF ~w.enabled THEN w
    ELSE LET latency == UnwrapOr(w.pending[label], 0)
             within == latency <= DEADLINE /\ ok
         IN [w EXCEPT !.pending[label] = None,
                      !.last_latency_ms = Some(latency),
                      !.last_within_deadline = Some(within),
                      !.last_window = Some(label),
                      !.success_count = IF within THEN @ + 1 ELSE @,
                      !.deadline_miss_count = IF within THEN @ ELSE @ + 1,
                      !.latencies = Append(@, latency)]

record_focus_outcome(w, label, ok) ==
    IF ~w.enabled THEN w
    ELSE IF IsSome(w.pending[label])
    THEN LET latency == Unwrap(w.pending[label])
             within == within_deadline(latency, ok)
         IN [w EXCEPT !.pending[label] = None,
                      !.last_latency_ms = Some(latency),
                      !.last_within_deadline = Some(within),
                      !.last_window = Some(label),
                      !.success_count = IF within THEN @ + 1 ELSE @,
                      !.deadline_miss_count = IF within THEN @ ELSE @ + 1,
                      !.latencies = push_latency(@, latency)]
    ELSE w

RECURSIVE trim_notes(_)
trim_notes(notes) == IF Len(notes) > MAX_NOTES THEN trim_notes(Tail(notes)) ELSE notes

record_note(w, note) == [w EXCEPT !.notes = trim_notes(Append(@, note))]

-----------------------------------------------------------------------------
(* Commands *)

Commands == {"show_search_window", "hide_search_window", "toggle_search_window",
             "show_management_window", "show_settings_window",
             "show_quick_add_window", "hide_quick_add_window"}

CommandLabel(c) ==
    CASE c \in {"show_search_window", "hide_search_window", "toggle_search_window"}
            -> SEARCH_WINDOW_LABEL
      [] c = "show_management_window" -> MANAGEMENT_WINDOW_LABEL
      [] c = "show_settings_window" -> SETTINGS_WINDOW_LABEL
      [] OTHER -> QUICK_ADD_WINDOW_LABEL

FirstStep(c) ==
    CASE c = "show_quick_add_window" -> "capture"
      [] c = "hide_quick_add_window" -> "find"
      [] OTHER -> "get_or_create"

\* where a command goes once it holds its window
AfterGetOrCreate(c) ==
    CASE c \in {"show_search_window", "show_quick_add_window"} -> "center"
      [] c = "hide_search_window" -> "hide"
      [] c = "toggle_search_window" -> "toggle"
      [] OTHER -> "show"

NoOp == [cmd |-> "none", did |-> "none", ok |-> FALSE, created |-> FALSE]
NoResult == [cmd |-> "none", label |-> "none", ok |-> TRUE, cause |-> "none",
             did |-> "none", focus |-> "none", attempts |-> 0, forwarded |-> <<>>,
             value |-> None]

ResetLocals ==
    /\ cmd' = "none" /\ cur' = "none" /\ origin' = "none"
    /\ created' = FALSE /\ text' = <<>>
    /\ attempts' = 0 /\ delay_ms' = initial_delay_ms /\ success' = FALSE
    /\ focus_requests' = 0 /\ focused_at' = 0 /\ last_answer' = "none"
    /\ only_request_errors' = TRUE /\ focus_warnings' = 0 /\ forwarded' = <<>>

\* the command returns to its caller: Ok(()) or Err(cause)
Finish(ok, cause, did) ==
    /\ pc' = "idle"
    /\ result' = [cmd |-> cmd, label |-> cur, ok |-> ok, cause |-> cause, did |-> did,
                  focus |-> IF did # "show" THEN "none"
                            ELSE IF success THEN "acquired" ELSE "missed",
                  attempts |-> attempts, forwarded |-> forwarded, value |-> None]
    /\ last_op' = [last_op EXCEPT ![cur] =
                     [cmd |-> cmd, did |-> did, ok |-> ok, created |-> created]]
    /\ prev_op' = [prev_op EXCEPT ![cur] = last_op[cur]]
    /\ ResetLocals

Begin(c, o) ==
    /\ pc = "idle"
    /\ pc' = FirstStep(c)
    /\ cmd' = c /\ cur' = CommandLabel(c) /\ origin' = o
    /\ ops' = ops + 1
    /\ UNCHANGED <<created, text, focusVars, windows, tableVars, envVars, histVars>>

\* a command invoked from inside the application (tray, shortcut, frontend)
LocalInvoke ==
    /\ ops < MaxOps
    /\ \E c \in Commands : Begin(c, "local")
    /\ UNCHANGED wdVars

-----------------------------------------------------------------------------
(* Steps of the window commands *)

\* the step goes on inside the same command
Continue(p) == pc' = p /\ UNCHANGED <<cmd, cur, origin, histVars, ops>>

Exists(label) == windows[label] # "none"     \* app.get_webview_window(label).is_some()

builds_window_always(label) == TRUE

\* get_or_create_*_window: the builder runs when get_webview_window finds nothing
builds_window(label) == ~Exists(label)

\* get_or_create_*_window
get_or_create_window ==
    /\ pc = "get_or_create"
    /\ UNCHANGED <<focus_metrics, counterVars, quick_add_capture, envVars, wdVars>>
    /\ IF ~builds_window(cur)
       THEN /\ Continue(AfterGetOrCreate(cmd))
            /\ UNCHANGED <<created, text, focusVars, windows, on_top_state, visibility_state>>
       ELSE \E built \in BOOLEAN :
              IF built
              THEN /\ windows' = [windows EXCEPT ![cur] = "live"]
                   /\ on_top_state' = on_top_after_create(cur)
                   /\ visibility_state' = visibility_after_create(cur)
                   /\ created' = TRUE
                   /\ Continue(AfterGetOrCreate(cmd))
                   /\ UNCHANGED <<text, focusVars>>
              ELSE /\ Finish(FALSE, "create", "none")
                   /\ UNCHANGED <<windows, on_top_state, visibility_state, ops>>

PositioningAnswers == {"ok", "not_supported", "error"}

should_ignore_positioning_error_never(err) == FALSE

\* the error's message contains "NotSupported" or "not supported"
should_ignore_positioning_error(err) == err = "not_supported"

\* center_window
center_window ==
    /\ pc = "center"
    /\ UNCHANGED <<windows, tableVars, envVars, wdVars>>
    /\ \E answer \in PositioningAnswers :
         IF answer = "ok" \/ should_ignore_positioning_error(answer)
         THEN /\ Continue("show")
              /\ last_answer' = answer
              /\ UNCHANGED <<created, text, loopVars, focus_warnings, forwarded>>
         ELSE Finish(FALSE, "center", "none") /\ UNCHANGED ops

is_effectively_visible_trusting_toolkit(actual_visible, expected_visible) == actual_visible

is_effectively_visible(actual_visible, expected_visible) ==
    IF actual_visible /\ ~expected_visible THEN FALSE ELSE actual_visible

\* the answers of is_visible(): Ok(true), Ok(false), Err
VisibleAnswer(raw_visible) ==
    CASE raw_visible = Some(TRUE) -> "visible"
      [] raw_visible = Some(FALSE) -> "not_visible"
      [] OTHER -> "no_visible_answer"

\* toggle_search_window, from the visibility query to the branch taken
toggle_search_window ==
    /\ pc = "toggle"
    /\ UNCHANGED <<windows, tableVars, envVars, wdVars, created, text, loopVars,
                   focus_warnings, forwarded>>
    /\ \E raw_visible \in OptionBool :
         LET actual_visible == UnwrapOr(raw_visible, FALSE)
             expected_visible == UnwrapOr(visibility_state[cur], actual_visible)
         IN /\ last_answer' = VisibleAnswer(raw_visible)
            /\ Continue(IF is_effectively_visible(actual_visible, expected_visible)
                        THEN "hide" ELSE "center")

show_window_show_marking_visible ==
    /\ pc = "show"
    /\ on_top_state' = refresh_on_top_state(cur)
    /\ UNCHANGED <<windows, focus_metrics, counterVars, quick_add_capture, envVars, monVars>>
    /\ \E shown \in BOOLEAN :
         IF shown
         THEN /\ wd' = AdvanceTime(wd, show_settle_ms)
              /\ Continue("focus")
              /\ UNCHANGED <<created, text, focusVars, visibility_state>>
         ELSE /\ visibility_state' = record_visibility_state(visibility_state, cur, TRUE)
              /\ Finish(FALSE, "show", "none")
              /\ UNCHANGED <<wd, ops>>

\* show_window up to the focus sequence: refresh_on_top_state, show(), unminimize, settle
show_window_show ==
    /\ pc = "show"
    /\ on_top_state' = refresh_on_top_state(cur)
    /\ UNCHANGED <<windows, visibility_state, focus_metrics, counterVars, quick_add_capture, envVars,
                   monVars>>
    /\ \E shown \in BOOLEAN :
         IF shown
         THEN /\ wd' = AdvanceTime(wd, show_settle_ms)
              /\ Continue("focus")
              /\ UNCHANGED <<created, text, focusVars>>
         ELSE /\ Finish(FALSE, "show", "none")
              /\ UNCHANGED <<wd, ops>>

FocusAnswers == {"request_error", "focused", "not_focused", "query_error"}

attempt_focused_unverified(answer) == answer # "request_error"

\* set_focus() returned Ok and is_focused().unwrap_or(false) held after the sleep
attempt_focused(answer) == answer = "focused"

next_delay_uncapped(d) == d * 2

next_delay(d) == Min(d * 2, max_delay_ms)

loop_continues_off_by_one(n, ok) == n <= max_attempts /\ ~ok

loop_continues(n, ok) == n < max_attempts /\ ~ok

after_attempt_abort_on_error(n, answer) ==
    IF answer = "request_error" THEN "focus_end"
    ELSE IF loop_continues(n, attempt_focused(answer)) THEN "focus" ELSE "focus_end"

\* where the loop stands after its n-th attempt was answered
after_attempt(n, answer) ==
    IF loop_continues(n, attempt_focused(answer)) THEN "focus" ELSE "focus_end"

\* focus_window_with_backoff: one iteration of the loop
focus_window_with_backoff ==
    /\ pc = "focus"
    /\ loop_continues(attempts, success)
    /\ UNCHANGED <<windows, tableVars, envVars, monVars, created, text, focus_warnings,
                   forwarded>>
    /\ \E answer \in FocusAnswers :
         /\ attempts' = attempts + 1
         /\ focus_requests' = focus_requests + 1
         /\ last_answer' = answer
         /\ only_request_errors' = (only_request_errors /\ answer = "request_error")
         /\ wd' = IF answer = "request_error" THEN wd ELSE AdvanceTime(wd, delay_ms)
         /\ success' = attempt_focused(answer)
         /\ focused_at' = IF answer = "focused" /\ focused_at = 0
                          THEN attempts + 1 ELSE focused_at
         /\ delay_ms' = IF attempt_focused(answer) THEN delay_ms ELSE next_delay(delay_ms)
         /\ Continue(after_attempt(attempts + 1, answer))

emits_focus_warning_always(ok) == TRUE

\* the focus-warning event is emitted when the loop ended without success
emits_focus_warning(ok) == ~ok

\* focus_window_with_backoff after the loop: the focus-warning event, then the
\* FocusResult is returned and the other locals of the loop are dropped
focus_window_with_backoff_end ==
    /\ pc = "focus_end"
    /\ Continue("record_metrics")
    /\ focus_warnings' = IF emits_focus_warning(success)
                         THEN focus_warnings + 1 ELSE focus_warnings
    /\ delay_ms' = initial_delay_ms
    /\ focus_requests' = 0 /\ focused_at' = 0 /\ last_answer' = "none"
    /\ only_request_errors' = TRUE
    /\ UNCHANGED <<windows, tableVars, envVars, wdVars, created, text, attempts, success,
                   forwarded>>

FocusResult == [attempts |-> attempts, success |-> success]

\* show_window: record_focus_metrics
show_window_record_metrics ==
    /\ pc = "record_metrics"
    /\ focus_metrics' = record_focus_metrics(focus_metrics, cur, FocusResult)
    /\ counters' = record_focus_counters(counters, FocusResult, cur,
                                         metrics_enabled(snips_metrics))
    /\ focus_counter' = IF metrics_enabled(snips_metrics)
                        THEN record_window_focus(focus_counter, wm, success)
                        ELSE focus_counter
    /\ Continue("record_outcome")
    /\ UNCHANGED <<windows, on_top_state, visibility_state, quick_add_capture, envVars,
                   wdVars, created, text, focusVars>>

\* show_window: dbus_watchdog::record_focus_outcome
show_window_record_outcome ==
    /\ pc = "record_outcome"
    /\ wd' = record_focus_outcome(wd, cur, success)
    /\ forwarded' = Append(forwarded, success)
    /\ Continue("record_visibility")
    /\ UNCHANGED <<windows, tableVars, envVars, monVars, created, text, loopVars,
                   last_answer, focus_warnings>>

show_window_return_strict(ok) == ok

\* what show_window returns after the focus sequence: Ok(()) also on a focus miss
show_window_return(ok) == TRUE

\* show_window: record_visibility_state(label, true) and the return to the caller;
\* show_quick_add_window then stores the captured text
show_window_finish ==
    /\ pc = "record_visibility"
    /\ visibility_state' = record_visibility_state(visibility_state, cur, TRUE)
    /\ quick_add_capture' = IF cmd = "show_quick_add_window" /\ show_window_return(success)
                            THEN Some(text) ELSE quick_add_capture
    /\ IF show_window_return(success)
       THEN Finish(TRUE, "none", "show")
       ELSE Finish(FALSE, "focus", "show")
    /\ UNCHANGED <<windows, on_top_state, focus_metrics, counterVars, envVars, wdVars, ops>>

HideAnswers == {"ok", "not_supported", "error"}

\* hide_window: which way it ends for the toolkit's answers to hide() and close()
hide_window_outcome(hide_answer, close_ok) ==
    CASE hide_answer = "ok" -> "hidden"
      [] hide_answer = "not_supported" -> IF close_ok THEN "closed" ELSE "close_error"
      [] OTHER -> "hide_error"

visibility_after_hide_not_on_close(label, outcome) ==
    IF outcome = "hidden"
    THEN record_visibility_state(visibility_state, label, FALSE)
    ELSE visibility_state

visibility_after_hide(label, outcome) ==
    IF outcome \in {"hidden", "closed"}
    THEN record_visibility_state(visibility_state, label, FALSE)
    ELSE visibility_state

\* hide_window
hide_window ==
    /\ pc = "hide"
    /\ UNCHANGED <<on_top_state, focus_metrics, counterVars, quick_add_capture, envVars, wdVars, ops>>
    /\ \E hide_answer \in HideAnswers, close_ok \in BOOLEAN :
         LET outcome == hide_window_outcome(hide_answer, close_ok)
         IN /\ visibility_state' = visibility_after_hide(cur, outcome)
            /\ windows' = IF outcome = "closed"
                          THEN [windows EXCEPT ![cur] = "closing"] ELSE windows
            /\ CASE outcome = "hidden" -> Finish(TRUE, "none", "hide")
                 [] outcome = "closed" -> Finish(TRUE, "none", "close")
                 [] outcome = "hide_error" -> Finish(FALSE, "hide", "none")
                 [] OTHER -> Finish(FALSE, "close", "none")

\* hide_quick_add_window: the lookup of the window
hide_quick_add_window_find ==
    /\ pc = "find"
    /\ UNCHANGED <<windows, tableVars, envVars, wdVars>>
    /\ IF Exists(cur)
       THEN Continue("hide") /\ UNCHANGED <<created, text, focusVars>>
       ELSE Finish(TRUE, "none", "none") /\ UNCHANGED ops

MaxTextLen == 1
Chars == {" ", "a"}
Texts == UNION {[1..n -> Chars] : n \in 0..MaxTextLen}
\* the selection reader's answers: Err or Ok(text)
Selections == {None} \cup {Some(t) : t \in Texts}

RECURSIVE trim_start(_)
trim_start(t) == IF t # <<>> /\ Head(t) = " " THEN trim_start(Tail(t)) ELSE t
RECURSIVE trim_end(_)
trim_end(t) == IF t # <<>> /\ t[Len(t)] = " " THEN trim_end(SubSeq(t, 1, Len(t) - 1)) ELSE t
trim_nothing(t) == t

trim(t) == trim_end(trim_start(t))

\* show_quick_add_window: capture_selected_text_sync and the two early returns
show_quick_add_window_capture ==
    /\ pc = "capture"
    /\ UNCHANGED <<windows, on_top_state, visibility_state, focus_metrics, counterVars, envVars, wdVars>>
    /\ \E selected_text \in Selections :
         IF IsSome(selected_text) /\ trim(Unwrap(selected_text)) # <<>>
         THEN /\ text' = Unwrap(selected_text)
              /\ Continue("get_or_create")
              /\ UNCHANGED <<quick_add_capture, created, focusVars>>
         ELSE /\ quick_add_capture' = None
              /\ Finish(FALSE, "selection", "none")
              /\ UNCHANGED ops

\* the toolkit destroys a window whose close was requested
DestroyWindow ==
    /\ \E l \in Labels :
         /\ windows[l] = "closing"
         /\ windows' = [windows EXCEPT ![l] = "none"]
    /\ UNCHANGED <<pc, cmdVars, focusVars, tableVars, envVars, wdVars, histVars, ops>>

-----------------------------------------------------------------------------
(* The window layer on its own: the watchdog was never started *)

\* preferences as stored by the settings service at start-up
StoredPreferences(manager) ==
    {normalize_quick_window_preferences(
        [float_on_tiling |-> f, per_wm_overrides |-> NoOverrides], manager) :
     f \in BOOLEAN}

InitLocals ==
    /\ pc = "idle" /\ cmd = "none" /\ cur = "none" /\ origin = "none"
    /\ created = FALSE /\ text = <<>>
    /\ attempts = 0 /\ delay_ms = initial_delay_ms /\ success = FALSE
    /\ focus_requests = 0 /\ focused_at = 0 /\ last_answer = "none"
    /\ only_request_errors = TRUE /\ focus_warnings = 0 /\ forwarded = <<>>

\* BackupConfig::default()
BackupConfigDefault == [enabled |-> FALSE, interval_hours |-> 24, max_backups |-> 7]

\* run's setup: one BackupScheduler is started, another one is put in the state
InitBackup ==
    /\ started_config = BackupConfigDefault
    /\ managed_config = BackupConfigDefault
    /\ scheduler_pc = "read"
    /\ current_config = BackupConfigDefault
    /\ backup_files = 0
    /\ backup_attempts = 0

InitWindowTables ==
    /\ InitBackup
    /\ windows = [l \in Labels |-> "none"]
    /\ on_top_state = [l \in Labels |-> None]
    /\ visibility_state = [l \in Labels |-> None]
    /\ focus_metrics = [l \in Labels |-> None]
    /\ quick_add_capture = None
    /\ counters = [l \in Labels |-> None]
    /\ focus_counter = [k \in WindowManager \X ResultLabels |-> 0]
    /\ supplied = None
    /\ last_op = [l \in Labels |-> NoOp]
    /\ prev_op = [l \in Labels |-> NoOp]
    /\ result = NoResult
    /\ ops = 0

InitTables ==
    /\ InitWindowTables
    /\ wd = WatchdogDefault /\ mon = "off" /\ lines = <<>> /\ starts = 0

\* SNIPS_METRICS is not set
Init ==
    /\ InitLocals
    /\ InitTables
    /\ wm \in {"hyprland", "other"}
    /\ prefs \in StoredPreferences(wm)
    /\ snips_metrics = None
    /\ disable_watchdog = FALSE

Next ==
    \/ LocalInvoke
    \/ show_quick_add_window_capture
    \/ hide_quick_add_window_find
    \/ get_or_create_window
    \/ center_window
    \/ toggle_search_window
    \/ show_window_show
    \/ focus_window_with_backoff
    \/ focus_window_with_backoff_end
    \/ show_window_record_metrics
    \/ show_window_record_outcome
    \/ show_window_finish
    \/ hide_window
    \/ DestroyWindow

Spec == Init /\ [][Next]_vars

-----------------------------------------------------------------------------
(* Only shows: the sequence of the diagnostics scenario *)

MaxShows == 3

ShowCommands == {"show_search_window", "show_settings_window", "show_quick_add_window"}

ShowInvoke ==
    /\ ops < MaxShows
    /\ \E c \in ShowCommands : Begin(c, "local")
    /\ UNCHANGED wdVars

NextShows ==
    \/ ShowInvoke
    \/ show_quick_add_window_capture
    \/ get_or_create_window
    \/ center_window
    \/ show_window_show
    \/ focus_window_with_backoff
    \/ focus_window_with_backoff_end
    \/ show_window_record_metrics
    \/ show_window_record_outcome
    \/ show_window_finish

\* the settings are loaded with their defaults, as the scenario sets them
InitShows ==
    /\ InitLocals
    /\ InitTables
    /\ wm \in {"hyprland", "other"}
    /\ prefs = normalize_quick_window_preferences(DefaultPreferences, wm)
    /\ snips_metrics = None
    /\ disable_watchdog = FALSE

SpecShows == InitShows /\ [][NextShows]_vars

-----------------------------------------------------------------------------
(* Shows with the metrics: SNIPS_METRICS has any value or none *)

MaxMetricsOps == 2

MetricsCommands == {"show_search_window", "show_quick_add_window"}

MetricsInvoke ==
    /\ ops < MaxMetricsOps
    /\ \E c \in MetricsCommands : Begin(c, "local")
    /\ UNCHANGED wdVars

InitMetrics ==
    /\ InitLocals
    /\ InitTables
    /\ wm \in {"hyprland", "other"}
    /\ prefs = normalize_quick_window_preferences(DefaultPreferences, wm)
    /\ snips_metrics \in MetricsValues
    /\ disable_watchdog = FALSE

NextMetrics ==
    \/ MetricsInvoke
    \/ show_quick_add_window_capture
    \/ get_or_create_window
    \/ center_window
    \/ show_window_show
    \/ focus_window_with_backoff
    \/ focus_window_with_backoff_end
    \/ show_window_record_metrics
    \/ show_window_record_outcome
    \/ show_window_finish

SpecMetrics == InitMetrics /\ [][NextMetrics]_vars

-----------------------------------------------------------------------------
(* Settings writes: update_settings between shows of the search window *)

MaxPrefsOps == 2

\* the QuickWindowPreferences a caller can supply
PreferenceValues ==
    [float_on_tiling : BOOLEAN, per_wm_overrides : [WindowManager -> OptionBool]]

apply_quick_window_preferences_runtime_search_only(should_float) ==
    [l \in Labels |->
        IF l = SEARCH_WINDOW_LABEL /\ Exists(l)
        THEN Some(should_float)
        ELSE on_top_state[l]]

\* apply_quick_window_preferences_runtime: refresh_on_top_state for the search
\* and quick-add windows that exist, with the floating policy of the new
\* preferences
apply_quick_window_preferences_runtime(should_float) ==
    [l \in Labels |->
        IF l \in {SEARCH_WINDOW_LABEL, QUICK_ADD_WINDOW_LABEL} /\ Exists(l)
        THEN Some(should_float)
        ELSE on_top_state[l]]

UpdateOutcomes == {"validation", "database", "emit", "ok"}

\* the update_settings command: validate, store the normalized preferences,
\* write the database, refresh the windows, emit settings-changed
UpdateSettings(values) ==
    /\ ops < MaxPrefsOps
    /\ ops' = ops + 1
    /\ \E settings \in values, outcome \in UpdateOutcomes :
          /\ IF outcome = "validation"
             THEN UNCHANGED <<prefs, supplied>>
             ELSE /\ prefs' = normalize_quick_window_preferences(settings, wm)
                  /\ supplied' = Some(settings)
          /\ UNCHANGED <<wm, snips_metrics, disable_watchdog, backupVars>>
          /\ on_top_state' =
                IF outcome \in {"emit", "ok"}
                THEN apply_quick_window_preferences_runtime(quick_windows_should_float')
                ELSE on_top_state
          /\ result' = [NoResult EXCEPT !.cmd = "update_settings",
                                        !.ok = (outcome = "ok"),
                                        !.cause = IF outcome = "ok" THEN "none" ELSE outcome,
                                        !.did = "update"]
    /\ UNCHANGED <<pc, cmdVars, focusVars, windows, visibility_state, focus_metrics,
                   quick_add_capture, counterVars, wdVars, last_op, prev_op>>

\* the command called with any preferences
update_settings ==
    /\ pc = "idle"
    /\ UpdateSettings(PreferenceValues)

PrefsInvoke ==
    /\ ops < MaxPrefsOps
    /\ Begin("show_search_window", "local")
    /\ UNCHANGED wdVars

\* the preferences hold their built-in default until settings are loaded or written
InitPrefs ==
    /\ InitLocals
    /\ InitTables
    /\ wm \in WindowManager
    /\ prefs = DefaultPreferences
    /\ snips_metrics = None
    /\ disable_watchdog = FALSE

NextPrefs ==
    \/ PrefsInvoke
    \/ update_settings
    \/ get_or_create_window
    \/ center_window
    \/ show_window_show
    \/ focus_window_with_backoff
    \/ focus_window_with_backoff_end
    \/ show_window_record_metrics
    \/ show_window_record_outcome
    \/ show_window_finish

SpecPrefs == InitPrefs /\ [][NextPrefs]_vars

-----------------------------------------------------------------------------
(* Diagnostics *)

reconcile_ignoring_override(raw, expected, assume) ==
    IF IsSome(raw) THEN raw ELSE expected

reconcile_preferring_expectation(raw, expected, assume) ==
    IF IsSome(expected) THEN expected ELSE raw

\* collect_window_diagnostics: the match on (raw, expected, assume)
reconcile(raw, expected, assume) ==
    CASE IsSome(raw) /\ ~assume -> raw
      [] IsSome(raw) /\ IsSome(expected) /\ assume /\ raw # expected -> expected
      [] IsSome(raw) -> raw
      [] IsSome(expected) -> expected
      [] OTHER -> None

\* the record collect_window_diagnostics builds for one window, for the answers
\* of is_visible() and is_always_on_top() and the two environment flags
WindowDiagnostic(label, raw_visible, raw_always_on_top, assume_visibility, assume_expected) ==
    [label |-> label,
     is_visible |-> reconcile(raw_visible, visibility_state[label], assume_visibility),
     always_on_top |->
        UnwrapOr(reconcile(raw_always_on_top, on_top_state[label], assume_expected), FALSE),
     visibility_expected |-> visibility_state[label],
     always_on_top_expected |-> on_top_state[label],
     focus_attempts |-> IF IsSome(focus_metrics[label])
                        THEN Some(Unwrap(focus_metrics[label]).attempts) ELSE None,
     focus_success |-> IF IsSome(focus_metrics[label])
                       THEN Some(Unwrap(focus_metrics[label]).success) ELSE None,
     focus_success_total |-> IF IsSome(counters[label])
                             THEN Some(Unwrap(counters[label]).focus_success_total) ELSE None,
     focus_failure_total |-> IF IsSome(counters[label])
                             THEN Some(Unwrap(counters[label]).focus_failure_total) ELSE None]

\* the labels collect_window_diagnostics returns a record for
DiagnosedLabels == {l \in Labels : Exists(l)}

\* shows and hides of the windows diagnostics report on
MaxDiagnosticsOps == 2

DiagnosticsCommands == {"show_search_window", "hide_search_window", "show_settings_window"}

DiagnosticsInvoke ==
    /\ ops < MaxDiagnosticsOps
    /\ \E c \in DiagnosticsCommands : Begin(c, "local")
    /\ UNCHANGED wdVars

NextDiagnostics ==
    \/ DiagnosticsInvoke
    \/ get_or_create_window
    \/ center_window
    \/ show_window_show
    \/ focus_window_with_backoff
    \/ focus_window_with_backoff_end
    \/ show_window_record_metrics
    \/ show_window_record_outcome
    \/ show_window_finish
    \/ hide_window

SpecDiagnostics == Init /\ [][NextDiagnostics]_vars

-----------------------------------------------------------------------------
(* Claims about the focus sequence *)

FocusResultReturned == pc \in {"record_metrics", "record_outcome", "record_visibility"}

\* C1: one show issues at most 5 focus requests, and the FocusResult it yields
\* and stores has attempts in 1..5, whatever the toolkit answers.
C1_AttemptsBounded ==
    /\ focus_requests <= 5
    /\ pc \in {"focus", "focus_end"} => attempts = focus_requests
    /\ pc = "focus_end" \/ FocusResultReturned => attempts \in 1..5
    /\ \A l \in Labels :
         IsSome(focus_metrics[l]) => Unwrap(focus_metrics[l]).attempts \in 1..5

C1_Witness ==
    /\ pc = "focus_end"
    /\ focus_requests = 5
    /\ attempts = 5
    /\ last_answer = "query_error"

\* C2: the sequence ends with success exactly when some attempt's request
\* succeeded and its query reported focused; it stops at the first such
\* attempt, and no focus request is issued after it.
C2_SuccessIffFocused ==
    /\ pc = "focus_end" =>
         /\ success = (focused_at # 0)
         /\ success => (attempts = focused_at /\ focus_requests = focused_at)
         /\ success = (last_answer = "focused")
    /\ pc = "focus" => (focused_at = 0 /\ ~success)
    /\ FocusResultReturned => focus_requests = 0

C2_Witness ==
    /\ pc = "focus_end"
    /\ success
    /\ attempts = 3
    /\ focused_at = 3

\* C12: a focus request that errors on an attempt before the fifth does not
\* end the sequence, the next attempt is made; when all five requests error
\* the sequence ends with attempts = 5 and success = false.
C12_RequestErrorsRetried ==
    /\ pc = "focus" => (attempts < 5 /\ ~success)
    /\ (pc \in {"focus", "focus_end"} /\ last_answer = "request_error" /\ attempts < 5)
          => pc = "focus"
    /\ (pc = "focus_end" /\ only_request_errors) => (attempts = 5 /\ ~success)

C12_Witness ==
    /\ pc = "focus_end"
    /\ only_request_errors
    /\ focus_requests = 5
    /\ attempts = 5
    /\ ~success

\* C13: a focus sequence emits the focus-warning event exactly once when it
\* ends with success = false, and never when it ends with success = true or
\* while it is still running.
C13_WarningOnceOnMiss ==
    /\ pc \in {"focus", "focus_end"} => focus_warnings = 0
    /\ FocusResultReturned => focus_warnings = (IF success THEN 0 ELSE 1)
    /\ focus_warnings <= 1

C13_Witness ==
    /\ pc = "record_metrics"
    /\ ~success
    /\ attempts = 5
    /\ focus_warnings = 1

RECURSIVE Pow2(_)
Pow2(k) == IF k = 0 THEN 1 ELSE 2 * Pow2(k - 1)

\* C14: the delay of the k-th attempt is min(20 * 2^(k-1), 320) ms: 20 for the
\* first, doubled after every attempt that did not report focus (a failed
\* request included), never above 320.
C14_DelayDoubles ==
    /\ delay_ms <= 320
    /\ pc = "focus" =>
         delay_ms = (IF 20 * Pow2(attempts) <= 320 THEN 20 * Pow2(attempts) ELSE 320)
    /\ (pc = "focus_end" /\ ~success) => delay_ms = 320

C14_Witness ==
    /\ pc = "focus"
    /\ attempts = 4
    /\ delay_ms = 320
    /\ last_answer = "request_error"

-----------------------------------------------------------------------------
(* Claims about toggle, show and hide *)

ToggledShowThenHide ==
    /\ pc = "idle"
    /\ prev_op[SEARCH_WINDOW_LABEL] =
         [cmd |-> "toggle_search_window", did |-> "show", ok |-> TRUE, created |-> TRUE]
    /\ last_op[SEARCH_WINDOW_LABEL].cmd = "toggle_search_window"
    /\ last_op[SEARCH_WINDOW_LABEL].did \in {"hide", "close"}
    /\ last_op[SEARCH_WINDOW_LABEL].ok

\* C3 as stated: after toggle (creates and shows) and toggle (hides), the Search
\* diagnostic reports is_visible == false, whatever the toolkit answers and
\* whatever the environment flags are.
C3_Original ==
    ToggledShowThenHide =>
        \A raw \in OptionBool, assume \in BOOLEAN :
            /\ Exists(SEARCH_WINDOW_LABEL)
            /\ WindowDiagnostic(SEARCH_WINDOW_LABEL, raw, None, assume, FALSE).is_visible
                 = Some(FALSE)

\* C3 amended: after toggle (creates and shows) and toggle (hides), the tracked
\* expectation of Search is false, and the diagnostic of the surface reports
\* is_visible == false unless the toolkit still answers visible=true while
\* SNIPS_ASSUME_WINDOW_VISIBILITY is not set.
C3_TwoTogglesHidden ==
    ToggledShowThenHide =>
        \A raw \in OptionBool, assume \in BOOLEAN :
            LET d == WindowDiagnostic(SEARCH_WINDOW_LABEL, raw, None, assume, FALSE)
            IN /\ d.visibility_expected = Some(FALSE)
               /\ (assume \/ raw # Some(TRUE)) => d.is_visible = Some(FALSE)

C3_Witness ==
    /\ ToggledShowThenHide
    /\ Exists(SEARCH_WINDOW_LABEL)
    /\ last_op[SEARCH_WINDOW_LABEL].did = "hide"
    /\ WindowDiagnostic(SEARCH_WINDOW_LABEL, Some(TRUE), None, TRUE, FALSE).is_visible
         = Some(FALSE)

\* C15: a show_window call that returned Ok has stored this call's FocusResult
\* for the label (the diagnostics report its attempts and success), has passed
\* its success to record_focus_outcome exactly once, and has set the label's
\* visibility expectation to true, whether or not focus was acquired; no other
\* command passes anything to record_focus_outcome.
C15_ShowRecordsItsResult ==
    /\ (pc = "idle" /\ result.did = "show" /\ result.ok) =>
         LET l == result.label
             ok == result.focus = "acquired"
             d == WindowDiagnostic(l, None, None, FALSE, FALSE)
         IN /\ focus_metrics[l] = Some([attempts |-> result.attempts, success |-> ok])
            /\ d.focus_attempts = Some(result.attempts)
            /\ d.focus_success = Some(ok)
            /\ result.forwarded = <<ok>>
            /\ visibility_state[l] = Some(TRUE)
    /\ result.did # "show" => result.forwarded = <<>>

\* a second show of a label missed focus after five attempts
C15_Witness ==
    /\ pc = "idle"
    /\ result.did = "show" /\ result.ok
    /\ result.focus = "missed"
    /\ result.attempts = 5
    /\ prev_op[result.label].did = "show"
    /\ ~last_op[result.label].created

\* C11: toggle hides the surface exactly when the toolkit reports visible=true
\* and the tracked visibility expectation is not false; otherwise (not visible,
\* no answer, or visible with the expectation false) it centers and shows it.
C11_ToggleBranch ==
    (cmd = "toggle_search_window" /\ pc \in {"hide", "center"}) =>
        LET hides == last_answer = "visible"
                     /\ visibility_state[SEARCH_WINDOW_LABEL] # Some(FALSE)
        IN /\ last_answer \in {"visible", "not_visible", "no_visible_answer"}
           /\ hides => pc = "hide"
           /\ ~hides => pc = "center"

\* the toolkit still reports a surface visible whose expectation is false
C11_Witness ==
    /\ cmd = "toggle_search_window"
    /\ pc = "center"
    /\ ~created
    /\ last_answer = "visible"
    /\ visibility_state[SEARCH_WINDOW_LABEL] = Some(FALSE)
    /\ last_op[SEARCH_WINDOW_LABEL].did = "hide"

ShownLast(l) ==
    /\ pc = "idle"
    /\ result.label = l /\ result.did = "show" /\ result.ok

\* C7: after a show of Search or QuickCapture under a floating policy of true,
\* the diagnostic of that label has always_on_top_expected == true for every
\* answer of the toolkit's always-on-top query.
C7_OnTopExpectedAfterShow ==
    \A l \in {SEARCH_WINDOW_LABEL, QUICK_ADD_WINDOW_LABEL} :
        (ShownLast(l) /\ quick_windows_should_float) =>
            \A raw \in OptionBool, assume \in BOOLEAN :
                WindowDiagnostic(l, None, raw, FALSE, assume).always_on_top_expected
                    = Some(TRUE)

C7_Witness ==
    /\ ShownLast(QUICK_ADD_WINDOW_LABEL)
    /\ wm = "hyprland"
    /\ quick_windows_should_float
    /\ WindowDiagnostic(QUICK_ADD_WINDOW_LABEL, None, Some(FALSE), FALSE, FALSE).always_on_top
         = FALSE
    /\ on_top_state[QUICK_ADD_WINDOW_LABEL] = Some(TRUE)

ShownOk(l) == last_op[l].did = "show" /\ last_op[l].ok

SearchSettingsQuickAddShown ==
    /\ pc = "idle"
    /\ ShownOk(SEARCH_WINDOW_LABEL)
    /\ ShownOk(SETTINGS_WINDOW_LABEL)
    /\ ShownOk(QUICK_ADD_WINDOW_LABEL)
    /\ last_op[MANAGEMENT_WINDOW_LABEL] = NoOp
    /\ quick_windows_should_float

C10_HideRecordsHidden ==
    \A l \in Labels :
        (last_op[l].did \in {"hide", "close"} /\ last_op[l].ok) =>
            visibility_state[l] = Some(FALSE)

C10_Witness ==
    /\ prev_op[QUICK_ADD_WINDOW_LABEL].did = "show"
    /\ last_op[QUICK_ADD_WINDOW_LABEL].did = "close"
    /\ visibility_state[QUICK_ADD_WINDOW_LABEL] = Some(FALSE)

-----------------------------------------------------------------------------
(* The locks of the shared state: what each step acquires, releases and waits for *)

LockNames == {"on_top", "visibility", "counters", "focus_metrics", "prefs", "chrome",
              "watchdog", "capture"}

Acquire(lock) == <<"acquire", lock>>     \* handle().read() / handle().write()
Release(lock) == <<"release", lock>>     \* the guard goes out of scope
Toolkit(call) == <<"toolkit", call>>     \* a call into the windowing toolkit
Sleep(what) == <<"sleep", what>>         \* thread::sleep
Await(what) == <<"await", what>>         \* the task yields until its I/O completes

BlockingOps == {"toolkit", "sleep", "await"}

\* if let Ok(mut guard) = handle().write() { one map operation }
Scoped(lock) == <<Acquire(lock), Release(lock)>>

quick_windows_should_float_events == Scoped("prefs")

window_chrome_preference_events == Scoped("chrome")

refresh_on_top_state_events(label) ==
    IF IsSome(expected_on_top_for_label(label))
    THEN quick_windows_should_float_events \o <<Toolkit("set_always_on_top")>>
           \o Scoped("on_top")
    ELSE <<>>

apply_platform_window_profile_events(label) ==
    IF label \in {SEARCH_WINDOW_LABEL, QUICK_ADD_WINDOW_LABEL}
    THEN quick_windows_should_float_events \o window_chrome_preference_events
    ELSE window_chrome_preference_events

\* get_or_create_*_window: the lookup and, with no window found, the build
get_or_create_window_events(label) ==
    <<Toolkit("get_webview_window")>> \o
    IF builds_window(label)
    THEN apply_platform_window_profile_events(label) \o <<Toolkit("build")>> \o
         IF label \in {SEARCH_WINDOW_LABEL, QUICK_ADD_WINDOW_LABEL}
         THEN refresh_on_top_state_events(label) \o Scoped("visibility")
         ELSE <<Toolkit("set_always_on_top")>> \o Scoped("on_top")
    ELSE <<>>

center_window_events == <<Toolkit("center")>>

toggle_search_window_events == <<Toolkit("is_visible")>> \o Scoped("visibility")

\* show_window up to the focus sequence
show_window_show_events(label) ==
    refresh_on_top_state_events(label) \o
    <<Toolkit("is_visible"), Toolkit("is_focused"), Toolkit("show"),
      Toolkit("is_visible"), Toolkit("is_focused"), Toolkit("unminimize"),
      Sleep("settle")>>

focus_attempt_events_under_watchdog_lock ==
    <<Acquire("watchdog"), Toolkit("set_focus"), Sleep("backoff"), Toolkit("is_focused"),
      Release("watchdog")>>

\* one iteration of focus_window_with_backoff's loop
focus_attempt_events == <<Toolkit("set_focus"), Sleep("backoff"), Toolkit("is_focused")>>

focus_window_with_backoff_end_events == <<Toolkit("emit")>>

\* log_focus_metrics, record_focus_metrics and record_focus_counters
record_focus_metrics_events(enabled) ==
    <<Toolkit("is_visible"), Toolkit("is_focused")>> \o Scoped("focus_metrics") \o
    IF enabled THEN Scoped("counters") ELSE <<>>

record_focus_outcome_events == Scoped("watchdog")

\* record_visibility_state, the last log line of show_window, and for quick add
\* record_quick_add_capture
show_window_finish_events(command) ==
    Scoped("visibility") \o <<Toolkit("is_visible"), Toolkit("is_focused")>> \o
    IF command = "show_quick_add_window" THEN Scoped("capture") ELSE <<>>

hide_window_events == <<Toolkit("hide"), Toolkit("close")>> \o Scoped("visibility")

hide_quick_add_window_find_events == <<Toolkit("get_webview_window")>>

show_quick_add_window_capture_events ==
    <<Toolkit("get_webview_window"), Await("capture_selected_text_sync")>> \o
    Scoped("capture")

\* run_monitor_loop: one turn of the loop
monitor_read_line_events == <<Await("next_line")>> \o Scoped("watchdog")

\* what the step the command stands at does, in program order
StepEvents ==
    CASE pc = "get_or_create" -> get_or_create_window_events(cur)
      [] pc = "center" -> center_window_events
      [] pc = "toggle" -> toggle_search_window_events
      [] pc = "show" -> show_window_show_events(cur)
      [] pc = "focus" -> focus_attempt_events
      [] pc = "focus_end" -> focus_window_with_backoff_end_events
      [] pc = "record_metrics" -> record_focus_metrics_events(metrics_enabled(snips_metrics))
      [] pc = "record_outcome" -> record_focus_outcome_events
      [] pc = "record_visibility" -> show_window_finish_events(cmd)
      [] pc = "hide" -> hide_window_events
      [] pc = "find" -> hide_quick_add_window_find_events
      [] pc = "capture" -> show_quick_add_window_capture_events
      [] OTHER -> <<>>

\* the locks held once the first k events have happened
RECURSIVE held_after(_, _)
held_after(events, k) ==
    IF k = 0 THEN {}
    ELSE LET held == held_after(events, k - 1)
             event == events[k]
         IN IF event[1] = "acquire" THEN held \cup {event[2]}
            ELSE IF event[1] = "release" THEN held \ {event[2]}
            ELSE held

\* the locks held at some point where the events block: a toolkit call, a sleep, an await
held_while_blocking(events) ==
    UNION {held_after(events, k - 1) : k \in {i \in 1..Len(events) : events[i][1] \in BlockingOps}}

\* the watchdog state can be locked by the monitor task: the command, wherever
\* it waits inside its step, does not hold it
watchdog_lock_free == "watchdog" \notin held_while_blocking(StepEvents)

-----------------------------------------------------------------------------
(* The watchdog: start_watchdog, the monitor task, D-Bus calls, time *)

should_enable_watchdog(disable_flag, manager) ==
    IF disable_flag THEN FALSE
    ELSE IF manager # "hyprland" THEN FALSE
    ELSE TRUE

\* the body of start_watchdog; the input is whether `dbus-monitor --version`
\* could be run
StartWatchdog ==
    /\ starts' = starts + 1
    /\ \E monitor_available \in BOOLEAN :
         IF ~should_enable_watchdog(disable_watchdog, wm)
         THEN /\ wd' = [wd EXCEPT !.enabled = FALSE,
                                  !.notes = Append(@, "watchdog disabled")]
              /\ mon' = mon
         ELSE IF ~monitor_available
         THEN /\ wd' = [wd EXCEPT !.enabled = TRUE,
                                  !.last_error = Some("dbus-monitor not available"),
                                  !.monitor_running = FALSE]
              /\ mon' = mon
         ELSE /\ wd' = record_note([wd EXCEPT !.enabled = TRUE, !.last_error = None],
                                   "watchdog initialized")
              /\ mon' = "spawning"
    /\ UNCHANGED <<pc, cmdVars, focusVars, windows, tableVars, envVars, lines, histVars, ops>>

\* start_watchdog called once, while the application is set up
start_watchdog ==
    /\ starts = 0
    /\ mon = "off"
    /\ StartWatchdog

\* run_monitor_loop: spawning dbus-monitor
monitor_spawn ==
    /\ mon = "spawning"
    /\ \E spawned \in BOOLEAN :
         IF spawned
         THEN /\ wd' = [wd EXCEPT !.monitor_running = TRUE, !.last_error = None]
              /\ mon' = "reading"
         ELSE /\ wd' = [wd EXCEPT !.last_error = Some("dbus-monitor exited: spawn failed"),
                                  !.monitor_running = FALSE]
              /\ mon' = "ended"
    /\ lines' = <<>>
    /\ UNCHANGED <<pc, cmdVars, focusVars, windows, tableVars, envVars, starts, histVars, ops>>

observe_method_keeping_earlier(w, method) ==
    IF IsSome(method_to_window(method))
    THEN [w EXCEPT !.last_method = Some(method),
                   !.last_window = method_to_window(method),
                   !.pending[Unwrap(method_to_window(method))] =
                       IF IsSome(@) THEN @ ELSE Some(0)]
    ELSE w

\* what run_monitor_loop writes for one line naming `method`
observe_method(w, method) ==
    IF IsSome(method_to_window(method))
    THEN [w EXCEPT !.last_method = Some(method),
                   !.last_window = method_to_window(method),
                   !.pending[Unwrap(method_to_window(method))] = Some(0)]
    ELSE w

\* the end of dbus-monitor's output, queued behind the lines printed before it
EndOfOutput == "EOF"

OutputEnded == lines # <<>> /\ lines[Len(lines)] = EndOfOutput

\* run_monitor_loop: one line read
monitor_read_line ==
    /\ mon = "reading"
    /\ lines # <<>>
    /\ Head(lines) # EndOfOutput
    /\ watchdog_lock_free
    /\ wd' = observe_method(wd, Head(lines))
    /\ lines' = Tail(lines)
    /\ UNCHANGED <<pc, cmdVars, focusVars, windows, tableVars, envVars, mon, starts,
                   histVars, ops>>

MonitorEndings == {"exit_ok", "exit_failed", "read_error", "wait_error"}

\* run_monitor_loop: the stream ends, or reading it fails
monitor_end ==
    /\ mon = "reading"
    /\ \E ending \in MonitorEndings :
         /\ ending \in {"exit_ok", "exit_failed", "wait_error"} => lines = <<>>
         /\ wd' = [wd EXCEPT !.monitor_running = FALSE,
                             !.last_error = IF ending = "exit_ok" THEN @
                                            ELSE Some("dbus-monitor exited")]
    /\ mon' = "ended"
    /\ lines' = <<>>
    /\ UNCHANGED <<pc, cmdVars, focusVars, windows, tableVars, envVars, starts, histVars, ops>>

\* the calls drawn here; Introspect stands for every method the watchdog ignores
WatchedMethods == {"ShowSearch", "ReloadTheme", "Introspect"}

MethodCommand(method) ==
    CASE method = "ShowQuickAdd" -> "show_quick_add_window"
      [] method = "ShowSearch" -> "show_search_window"
      [] method = "ToggleSearch" -> "toggle_search_window"
      [] method = "ShowManagement" -> "show_management_window"
      [] OTHER -> "none"

\* an external process calls a method of io.utensils.snips: dbus-monitor, when
\* it runs, prints the call, and the D-Bus service runs the method's handler
\* (ReloadTheme and unknown methods touch no window)
dbus_call ==
    /\ pc = "idle"
    /\ \E method \in WatchedMethods :
         /\ mon = "reading" => Len(lines) < MaxLines
         /\ lines' = IF mon = "reading" THEN Append(lines, method) ELSE lines
         /\ IF MethodCommand(method) # "none"
            THEN ops < MaxWatchdogOps /\ Begin(MethodCommand(method), "dbus")
            ELSE /\ mon = "reading"
                 /\ UNCHANGED <<pc, cmdVars, focusVars, windows, tableVars, envVars,
                                histVars, ops>>
    /\ UNCHANGED <<wd, mon, starts>>

WatchdogLocalCommands == {"show_search_window", "show_settings_window"}

local_call ==
    /\ ops < MaxWatchdogOps
    /\ \E c \in WatchdogLocalCommands : Begin(c, "local")
    /\ UNCHANGED wdVars

\* TickMs pass while some trigger is pending.  Only record_focus_outcome reads
\* the clock, so whatever time passes before it is let pass just before the
\* outcome is recorded; the sleeps of show_window pass their own time.
Tick ==
    /\ pc = "record_outcome"
    /\ \E l \in Labels : IsSome(wd.pending[l]) /\ Unwrap(wd.pending[l]) < AgeCap
    /\ wd' = AdvanceTime(wd, TickMs)
    /\ UNCHANGED <<pc, cmdVars, focusVars, windows, tableVars, envVars, monVars, histVars, ops>>

InitWatchdog ==
    /\ InitLocals
    /\ InitTables
    /\ wm \in {"hyprland", "other"}
    /\ prefs = normalize_quick_window_preferences(DefaultPreferences, wm)
    /\ snips_metrics = None
    /\ disable_watchdog \in BOOLEAN

NextWatchdog ==
    \/ start_watchdog
    \/ monitor_spawn
    \/ monitor_read_line
    \/ monitor_end
    \/ dbus_call
    \/ local_call
    \/ Tick
    \/ get_or_create_window
    \/ center_window
    \/ show_window_show
    \/ focus_window_with_backoff
    \/ focus_window_with_backoff_end
    \/ show_window_record_metrics
    \/ show_window_record_outcome
    \/ show_window_finish

SpecWatchdog == InitWatchdog /\ [][NextWatchdog]_vars

-----------------------------------------------------------------------------
(* The monitor task on its own, scheduled fairly *)

\* calls to io.utensils.snips that show no window: ReloadTheme, a method the
\* watchdog ignores, and a ShowSearch sent to an object the service does not
\* export (dbus-monitor matches on the destination only)
PrintedMethods == {"ReloadTheme", "Introspect", "ShowSearch"}

\* dbus-monitor prints a method call
method_call_printed ==
    /\ mon = "reading"
    /\ ~OutputEnded
    /\ Len(lines) < MaxLines
    /\ \E method \in PrintedMethods : lines' = Append(lines, method)
    /\ UNCHANGED <<pc, cmdVars, focusVars, windows, tableVars, envVars, wd, mon, starts,
                   histVars, ops>>

\* dbus-monitor exits or closes its output
monitor_output_ends ==
    /\ mon = "reading"
    /\ ~OutputEnded
    /\ lines' = Append(lines, EndOfOutput)
    /\ UNCHANGED <<pc, cmdVars, focusVars, windows, tableVars, envVars, wd, mon, starts,
                   histVars, ops>>

monitor_loop_result_still_running(w, ending) ==
    [w EXCEPT !.last_error = IF ending = "exit_ok" THEN @ ELSE Some("dbus-monitor exited")]

\* what the end of run_monitor_loop, or the task that awaited it, writes
monitor_loop_result(w, ending) ==
    [w EXCEPT !.monitor_running = FALSE,
              !.last_error = IF ending = "exit_ok" THEN @ ELSE Some("dbus-monitor exited")]

\* run_monitor_loop: next_line() returns None, the loop ends and the child is awaited
monitor_loop_ends ==
    /\ mon = "reading"
    /\ lines = <<EndOfOutput>>
    /\ \E ending \in {"exit_ok", "exit_failed", "wait_error"} :
         wd' = monitor_loop_result(wd, ending)
    /\ mon' = "ended"
    /\ lines' = <<>>
    /\ UNCHANGED <<pc, cmdVars, focusVars, windows, tableVars, envVars, starts, histVars, ops>>

\* run_monitor_loop: next_line() returns an error
monitor_read_fails ==
    /\ mon = "reading"
    /\ wd' = monitor_loop_result(wd, "read_error")
    /\ mon' = "ended"
    /\ lines' = <<>>
    /\ UNCHANGED <<pc, cmdVars, focusVars, windows, tableVars, envVars, starts, histVars, ops>>

NextMonitor ==
    \/ start_watchdog
    \/ monitor_spawn
    \/ method_call_printed
    \/ monitor_read_line
    \/ monitor_output_ends
    \/ monitor_loop_ends
    \/ monitor_read_fails

\* the runtime keeps running the spawned task
SpecMonitor ==
    /\ InitWatchdog
    /\ [][NextMonitor]_vars
    /\ WF_vars(monitor_spawn)
    /\ WF_vars(monitor_read_line)
    /\ WF_vars(monitor_loop_ends)

-----------------------------------------------------------------------------
(* The latency ring buffer and the snapshot: record_focus_outcome applied  *)
(* until the buffer is full and beyond                                     *)

MaxRecords == 2

\* the time between a trigger and the end of its show
SampleAges == {0, TickMs, 2 * TickMs, AgeCap}

RECURSIVE Sum(_)
Sum(samples) == IF samples = <<>> THEN 0 ELSE Head(samples) + Sum(Tail(samples))

average_over_capacity(latencies) ==
    IF latencies = <<>> THEN None
    ELSE Some([sum |-> Sum(latencies), samples |-> MAX_SAMPLES])

\* diagnostics_snapshot: `average`, the quotient sum / len kept as its two terms
average(latencies) ==
    IF latencies = <<>> THEN None
    ELSE Some([sum |-> Sum(latencies), samples |-> Len(latencies)])

diagnostics_snapshot(w) ==
    IF ~w.enabled
    THEN [enabled |-> FALSE, monitor_running |-> FALSE, last_method |-> None,
          last_window |-> None, last_latency_ms |-> None, last_within_deadline |-> None,
          success_count |-> 0, deadline_miss_count |-> 0, pending_count |-> 0,
          average_latency_ms |-> None, last_error |-> w.last_error, notes |-> w.notes]
    ELSE [enabled |-> TRUE, monitor_running |-> w.monitor_running,
          last_method |-> w.last_method, last_window |-> w.last_window,
          last_latency_ms |-> w.last_latency_ms,
          last_within_deadline |-> w.last_within_deadline,
          success_count |-> w.success_count,
          deadline_miss_count |-> w.deadline_miss_count,
          pending_count |-> Cardinality({l \in Labels : IsSome(w.pending[l])}),
          average_latency_ms |-> average(w.latencies),
          last_error |-> w.last_error, notes |-> w.notes]

\* the watchdog after start_watchdog and a successful spawn of dbus-monitor
StartedWatchdog ==
    [record_note([WatchdogDefault EXCEPT !.enabled = TRUE], "watchdog initialized")
        EXCEPT !.monitor_running = TRUE]

\* one triggered show: the monitor task reads the call, d ms pass, and the
\* show of the method's window ends with record_focus_outcome(label, ok)
triggered_outcome(w, method, d, ok) ==
    record_focus_outcome(AdvanceTime(observe_method(w, method), d),
                         Unwrap(method_to_window(method)), ok)

\* the buffer fills: the i-th outcome recorded is a ShowSearch that acquired
\* focus (i % 3) * TickMs after its trigger
record_filling_outcome ==
    /\ ops = 0
    /\ wd.success_count + wd.deadline_miss_count < MAX_SAMPLES
    /\ wd' = triggered_outcome(wd, "ShowSearch",
                               ((wd.success_count + wd.deadline_miss_count + 1) % 3) * TickMs,
                               TRUE)
    /\ UNCHANGED <<pc, cmdVars, focusVars, windows, tableVars, envVars, monVars, histVars,
                   ops>>

\* an outcome recorded with any method, latency and focus result
record_triggered_outcome ==
    /\ ops < MaxRecords
    /\ ops' = ops + 1
    /\ \E method \in {"ShowSearch", "ShowQuickAdd"}, d \in SampleAges, ok \in BOOLEAN :
         wd' = triggered_outcome(wd, method, d, ok)
    /\ UNCHANGED <<pc, cmdVars, focusVars, windows, tableVars, envVars, monVars, histVars>>

\* only the watchdog state matters here; the window layer is left at rest
InitLatency ==
    /\ InitLocals
    /\ InitWindowTables
    /\ wm = "hyprland"
    /\ prefs = normalize_quick_window_preferences(DefaultPreferences, wm)
    /\ snips_metrics = None
    /\ disable_watchdog = FALSE
    /\ mon = "reading" /\ lines = <<>> /\ starts = 1
    /\ wd = StartedWatchdog

NextLatency ==
    \/ record_filling_outcome
    \/ record_triggered_outcome

SpecLatency == InitLatency /\ [][NextLatency]_vars

-----------------------------------------------------------------------------
(* The notes: start_watchdog called again and again *)

MaxStarts == 11

\* a further call of start_watchdog, made while no monitor task is running
start_watchdog_again ==
    /\ starts \in 1..(MaxStarts - 1)
    /\ mon \in {"off", "ended"}
    /\ StartWatchdog

NextNotes ==
    \/ start_watchdog
    \/ start_watchdog_again
    \/ monitor_spawn
    \/ monitor_end

SpecNotes == InitWatchdog /\ [][NextNotes]_vars

-----------------------------------------------------------------------------
(* Triggers while commands run: shows, toggles and hides of Search with the monitor reading *)

MaxLockOps == 1

TriggerMethods == {"ShowSearch", "ToggleSearch"}

\* an external process calls ShowSearch or ToggleSearch: dbus-monitor, when it
\* runs, prints the call, and the D-Bus service runs the method's handler
trigger_call ==
    /\ ops < MaxLockOps
    /\ \E method \in TriggerMethods :
         /\ mon = "reading" => Len(lines) < MaxLines
         /\ lines' = IF mon = "reading" THEN Append(lines, method) ELSE lines
         /\ Begin(MethodCommand(method), "dbus")
    /\ UNCHANGED <<wd, mon, starts>>

hide_call ==
    /\ ops < MaxLockOps
    /\ Begin("hide_search_window", "local")
    /\ UNCHANGED wdVars

InitLocks ==
    /\ InitLocals
    /\ InitTables
    /\ wm = "hyprland"
    /\ prefs = normalize_quick_window_preferences(DefaultPreferences, wm)
    /\ snips_metrics \in {None, Some("1")}
    /\ disable_watchdog = FALSE

NextLocks ==
    \/ start_watchdog
    \/ monitor_spawn
    \/ monitor_read_line
    \/ monitor_end
    \/ trigger_call
    \/ hide_call
    \/ get_or_create_window
    \/ toggle_search_window
    \/ center_window
    \/ show_window_show
    \/ focus_window_with_backoff
    \/ focus_window_with_backoff_end
    \/ show_window_record_metrics
    \/ show_window_record_outcome
    \/ show_window_finish
    \/ hide_window

SpecLocks == InitLocks /\ [][NextLocks]_vars

-----------------------------------------------------------------------------
(* Triggers and outcomes interleaved: dbus-monitor prints calls while Search is
   shown from inside the application *)

\* dbus-monitor prints a call of ShowSearch, or of a method the watchdog ignores
trigger_printed ==
    /\ mon = "reading"
    /\ Len(lines) < MaxLines
    /\ \E method \in {"ShowSearch", "Introspect"} : lines' = Append(lines, method)
    /\ UNCHANGED <<pc, cmdVars, focusVars, windows, tableVars, envVars, wd, mon, starts,
                   histVars, ops>>

\* show_search_window invoked from inside the application
search_call ==
    /\ ops < MaxWatchdogOps
    /\ Begin("show_search_window", "local")
    /\ UNCHANGED wdVars

NextTriggers ==
    \/ trigger_printed
    \/ monitor_read_line
    \/ search_call
    \/ Tick
    \/ get_or_create_window
    \/ center_window
    \/ show_window_show
    \/ focus_window_with_backoff
    \/ focus_window_with_backoff_end
    \/ show_window_record_metrics
    \/ show_window_record_outcome
    \/ show_window_finish

SpecTriggers == InitLatency /\ [][NextTriggers]_vars

-----------------------------------------------------------------------------
(* The stored capture: record_quick_add_capture and take_quick_add_capture called
   between quick captures *)

MaxCaptureOps == 3

\* record_quick_add_capture(text)
record_quick_add_capture ==
    /\ pc = "idle"
    /\ ops < MaxCaptureOps
    /\ ops' = ops + 1
    /\ \E t \in Texts :
         /\ quick_add_capture' = Some(t)
         /\ result' = [NoResult EXCEPT !.cmd = "record_quick_add_capture",
                                       !.value = Some(t)]
    /\ UNCHANGED <<pc, cmdVars, focusVars, windows, on_top_state, visibility_state,
                   focus_metrics, counterVars, envVars, wdVars, last_op, prev_op>>

take_quick_add_capture_keeping ==
    /\ pc = "idle"
    /\ ops < MaxCaptureOps
    /\ ops' = ops + 1
    /\ result' = [NoResult EXCEPT !.cmd = "take_quick_add_capture",
                                  !.value = quick_add_capture]
    /\ UNCHANGED <<pc, cmdVars, focusVars, windows, tableVars, envVars, wdVars,
                   last_op, prev_op>>

\* take_quick_add_capture(): guard.take() returns what is stored and leaves None
take_quick_add_capture ==
    /\ pc = "idle"
    /\ ops < MaxCaptureOps
    /\ ops' = ops + 1
    /\ quick_add_capture' = None
    /\ result' = [NoResult EXCEPT !.cmd = "take_quick_add_capture",
                                  !.value = quick_add_capture]
    /\ UNCHANGED <<pc, cmdVars, focusVars, windows, on_top_state, visibility_state,
                   focus_metrics, counterVars, envVars, wdVars, last_op, prev_op>>

quick_add_call ==
    /\ ops < MaxCaptureOps
    /\ Begin("show_quick_add_window", "local")
    /\ UNCHANGED wdVars

NextCapture ==
    \/ record_quick_add_capture
    \/ take_quick_add_capture
    \/ quick_add_call
    \/ show_quick_add_window_capture
    \/ get_or_create_window
    \/ center_window
    \/ show_window_show
    \/ focus_window_with_backoff
    \/ focus_window_with_backoff_end
    \/ show_window_record_metrics
    \/ show_window_record_outcome
    \/ show_window_finish

SpecCapture == InitShows /\ [][NextCapture]_vars

-----------------------------------------------------------------------------
(* Search shown, hidden and toggled again and again, its surface closed and destroyed *)

MaxSearchOps == 3

SearchCommands == {"show_search_window", "hide_search_window", "toggle_search_window"}

SearchInvoke ==
    /\ ops < MaxSearchOps
    /\ \E c \in SearchCommands : Begin(c, "local")
    /\ UNCHANGED wdVars

NextSearch ==
    \/ SearchInvoke
    \/ get_or_create_window
    \/ center_window
    \/ toggle_search_window
    \/ show_window_show
    \/ focus_window_with_backoff
    \/ focus_window_with_backoff_end
    \/ show_window_record_metrics
    \/ show_window_record_outcome
    \/ show_window_finish
    \/ hide_window
    \/ DestroyWindow

SpecSearch == InitShows /\ [][NextSearch]_vars

-----------------------------------------------------------------------------
(* Settings written while Search, Settings or the quick capture are open *)

ApplyCommands == {"show_search_window", "show_settings_window", "show_quick_add_window"}

ApplyInvoke ==
    /\ ops < MaxPrefsOps
    /\ \E c \in ApplyCommands : Begin(c, "local")
    /\ UNCHANGED wdVars

\* the preferences that differ in what they say about floating under hyprland
FloatingValues ==
    {p \in PreferenceValues :
        \A w \in WindowManager \ {"hyprland"} : p.per_wm_overrides[w] = None}

update_settings_floating ==
    /\ pc = "idle"
    /\ UpdateSettings(FloatingValues)

NextApply ==
    \/ ApplyInvoke
    \/ update_settings_floating
    \/ show_quick_add_window_capture
    \/ get_or_create_window
    \/ center_window
    \/ show_window_show
    \/ focus_window_with_backoff
    \/ focus_window_with_backoff_end
    \/ show_window_record_metrics
    \/ show_window_record_outcome
    \/ show_window_finish

SpecApply == InitShows /\ [][NextApply]_vars

-----------------------------------------------------------------------------
(* The backup scheduler *)

MaxBackupOps == 3    \* backup commands called in one behaviour of SpecBackup
MaxBackups == 2      \* backups the loop attempts in one behaviour

BackupConfigs ==
    [enabled : BOOLEAN, interval_hours : {1, 24}, max_backups : {0, 1, 7}]

restVars == <<pc, cmdVars, focusVars, windows, tableVars, wm, prefs, snips_metrics,
              disable_watchdog, supplied, wdVars, last_op, prev_op>>

\* the update_backup_config command: the scheduler in the state takes the config
update_backup_config ==
    /\ pc = "idle"
    /\ ops < MaxBackupOps
    /\ ops' = ops + 1
    /\ \E config \in BackupConfigs : managed_config' = config
    /\ result' = [NoResult EXCEPT !.cmd = "update_backup_config", !.ok = TRUE,
                                  !.did = "update"]
    /\ UNCHANGED <<restVars, started_config, scheduler_pc, current_config, backup_files,
                   backup_attempts>>

\* the get_backup_config command: the config of the scheduler in the state
get_backup_config ==
    /\ pc = "idle"
    /\ ops < MaxBackupOps
    /\ ops' = ops + 1
    /\ result' = [NoResult EXCEPT !.cmd = "get_backup_config", !.ok = TRUE,
                                  !.value = Some(managed_config)]
    /\ UNCHANGED <<restVars, backupVars>>

\* cleanup_old_backups: files beyond max_count are deleted
cleanup_old_backups(files, max_count) ==
    IF files <= max_count THEN files ELSE max_count

\* one iteration of the loop of BackupScheduler::start up to its sleep: read
\* the config of the started scheduler; disabled, sleep a minute; enabled,
\* back up, clean up, sleep for the interval
scheduler_iteration ==
    /\ scheduler_pc = "read"
    /\ current_config' = started_config
    /\ IF ~current_config'.enabled
       THEN UNCHANGED <<backup_files, backup_attempts>>
       ELSE /\ backup_attempts < MaxBackups
            /\ backup_attempts' = backup_attempts + 1
            /\ \E created_file \in BOOLEAN :
                  backup_files' =
                     IF ~created_file THEN backup_files
                     ELSE IF current_config'.max_backups > 0
                          THEN cleanup_old_backups(backup_files + 1,
                                                   current_config'.max_backups)
                          ELSE backup_files + 1
    /\ scheduler_pc' = "sleep"
    /\ UNCHANGED <<restVars, started_config, managed_config, result, ops>>

\* the sleep of the loop ends
scheduler_wake ==
    /\ scheduler_pc = "sleep"
    /\ scheduler_pc' = "read"
    /\ UNCHANGED <<restVars, started_config, managed_config, current_config, backup_files,
                   backup_attempts, result, ops>>

NextBackup ==
    \/ update_backup_config
    \/ get_backup_config
    \/ scheduler_iteration
    \/ scheduler_wake

\* the runtime keeps running the spawned loop and its sleeps end
SpecBackup ==
    /\ InitLatency
    /\ [][NextBackup]_vars
    /\ WF_vars(scheduler_iteration)
    /\ WF_vars(scheduler_wake)

-----------------------------------------------------------------------------
(* Claims about the watchdog *)

\* the step of show_window that calls record_focus_outcome(cur, success)
OutcomeRecorded == pc = "record_outcome" /\ pc' = "record_visibility"

\* C4: with the watchdog enabled and an entry pending for the label,
\* record_focus_outcome(label, success) removes the entry and sets
\* last_within_deadline to (elapsed <= 200 ms and success); within the deadline
\* success_count grows by exactly 1 and deadline_miss_count stays, otherwise
\* deadline_miss_count grows by exactly 1 and success_count stays.
C4_OutcomeClassified ==
    [][(OutcomeRecorded /\ wd.enabled /\ IsSome(wd.pending[cur])) =>
         LET elapsed == Unwrap(wd.pending[cur])
             within == elapsed <= 200 /\ success
         IN /\ wd'.pending[cur] = None
            /\ wd'.last_within_deadline = Some(within)
            /\ within => /\ wd'.success_count = wd.success_count + 1
                         /\ wd'.deadline_miss_count = wd.deadline_miss_count
            /\ ~within => /\ wd'.deadline_miss_count = wd.deadline_miss_count + 1
                          /\ wd'.success_count = wd.success_count]_vars

C4_Witness ==
    /\ pc = "record_visibility"
    /\ origin = "dbus"
    /\ wd.enabled
    /\ wd.pending[cur] = None
    /\ wd.last_latency_ms = Some(200)
    /\ wd.last_within_deadline = Some(TRUE)
    /\ wd.success_count = 1
    /\ wd.deadline_miss_count = 0

\* C5: a pending entry that the show of its own trigger never matched is only
\* overwritten or ignored: a later show that no trigger caused (one invoked
\* from inside the application) never increments deadline_miss_count and never
\* sets last_within_deadline to false.
C5_StaleEntryNeverCounted ==
    [][(OutcomeRecorded /\ origin = "local") =>
         /\ wd'.deadline_miss_count = wd.deadline_miss_count
         /\ wd'.last_within_deadline = Some(FALSE)
              => wd.last_within_deadline = Some(FALSE)]_vars

\* C6: record_focus_outcome for a label with no pending entry changes nothing:
\* the counters, the latency ring buffer, last_latency_ms, last_within_deadline
\* and the pending map stay as they were.
C6_NoPendingNoChange ==
    [][(OutcomeRecorded /\ ~IsSome(wd.pending[cur])) =>
         /\ wd'.success_count = wd.success_count
         /\ wd'.deadline_miss_count = wd.deadline_miss_count
         /\ wd'.latencies = wd.latencies
         /\ wd'.last_latency_ms = wd.last_latency_ms
         /\ wd'.last_within_deadline = wd.last_within_deadline
         /\ wd'.pending = wd.pending
         /\ wd' = wd]_vars

\* the outcome was recorded with the watchdog enabled and nothing was consumed
C6_Witness ==
    /\ pc = "record_visibility"
    /\ wd.enabled
    /\ mon = "reading"
    /\ wd.pending[cur] = None
    /\ IsSome(wd.pending[SETTINGS_WINDOW_LABEL])
    /\ wd.success_count = 0
    /\ wd.deadline_miss_count = 0
    /\ wd.latencies = <<>>

-----------------------------------------------------------------------------
(* Claims about the counters and the quick capture *)

\* the step of show_window that calls record_focus_metrics
MetricsRecorded == pc = "record_metrics" /\ pc' = "record_outcome"

\* C16: with metrics enabled a completed focus sequence adds exactly 1 to
\* exactly one of the label's focus_success_total / focus_failure_total and to
\* the (compositor, result) counter that matches, however many attempts it
\* took; with metrics not enabled no counter changes; nothing else changes a
\* counter.
C16_CountedOncePerSequence ==
    [][/\ MetricsRecorded =>
            LET before == UnwrapOr(counters[cur], NoCounters)
                key == <<wm, IF success THEN "success" ELSE "failure">>
            IN IF snips_metrics # None /\ Unwrap(snips_metrics) \notin {"", "0"}
               THEN /\ counters'[cur] = Some(
                         [focus_success_total |->
                             before.focus_success_total + (IF success THEN 1 ELSE 0),
                          focus_failure_total |->
                             before.focus_failure_total + (IF success THEN 0 ELSE 1)])
                    /\ \A l \in Labels \ {cur} : counters'[l] = counters[l]
                    /\ focus_counter'[key] = focus_counter[key] + 1
                    /\ \A k \in DOMAIN focus_counter \ {key} :
                         focus_counter'[k] = focus_counter[k]
               ELSE UNCHANGED counterVars
       /\ ~MetricsRecorded => UNCHANGED counterVars]_vars

\* Search was shown twice with metrics enabled: once focused, once missed after
\* five attempts
C16_Witness ==
    /\ pc = "idle"
    /\ snips_metrics = Some("1")
    /\ wm = "hyprland"
    /\ counters[SEARCH_WINDOW_LABEL] =
         Some([focus_success_total |-> 1, focus_failure_total |-> 1])
    /\ focus_counter[<<"hyprland", "success">>] = 1
    /\ focus_counter[<<"hyprland", "failure">>] = 1
    /\ result.attempts = 5

\* a quick capture past its selection read holds text that is not blank
NonBlankCaptured ==
    (cmd = "show_quick_add_window" /\ pc \notin {"idle", "capture"}) =>
        \E i \in DOMAIN text : text[i] # " "

\* C20: when the selection reader fails or returns empty or blank text,
\* show_quick_add_window returns at once: no surface is built or shown, and
\* the FocusResult, the counters, the visibility expectations and the
\* watchdog state stay as they were; a quick capture reaches its show request
\* only with text that was read and is not blank.
C20_NoSelectionNoShow ==
    [][/\ (pc = "capture" /\ pc' = "idle") =>
            /\ ~result'.ok /\ result'.cause = "selection"
            /\ result'.forwarded = <<>>
            /\ windows' = windows
            /\ focus_metrics' = focus_metrics
            /\ UNCHANGED counterVars
            /\ visibility_state' = visibility_state
            /\ on_top_state' = on_top_state
            /\ wd' = wd
       /\ NonBlankCaptured']_vars

\* after a quick capture that was shown and counted, a second one finds no selection
C20_Witness ==
    /\ pc = "idle"
    /\ result.cmd = "show_quick_add_window"
    /\ result.cause = "selection"
    /\ prev_op[QUICK_ADD_WINDOW_LABEL].did = "show"
    /\ IsSome(focus_metrics[QUICK_ADD_WINDOW_LABEL])
    /\ IsSome(counters[QUICK_ADD_WINDOW_LABEL])
    /\ visibility_state[QUICK_ADD_WINDOW_LABEL] = Some(TRUE)

-----------------------------------------------------------------------------
(* Claims about diagnostics and the floating policy *)

\* the reconciliation rule as the documentation states it
ReportedValue(live, expectation, override_flag) ==
    IF live = None THEN expectation
    ELSE IF override_flag /\ expectation # None /\ expectation # live THEN expectation
    ELSE live

\* C17: for every window diagnostics report on, every live answer and every
\* setting of the two override flags, the reported visibility and
\* always-on-top are the live answer, except that the tracked expectation is
\* reported when there is no live answer, or when the attribute's override
\* flag is set and an expectation exists that differs from the live answer;
\* with neither, visibility is absent and always-on-top is false.
C17_SameReconciliation ==
    \A l \in DiagnosedLabels : \A raw_visible \in OptionBool, raw_on_top \in OptionBool :
      \A assume_visibility \in BOOLEAN, assume_expected \in BOOLEAN :
        LET d == WindowDiagnostic(l, raw_visible, raw_on_top,
                                  assume_visibility, assume_expected)
            top == ReportedValue(raw_on_top, on_top_state[l], assume_expected)
        IN /\ d.is_visible =
                ReportedValue(raw_visible, visibility_state[l], assume_visibility)
           /\ d.always_on_top = (IF top = None THEN FALSE ELSE Unwrap(top))

\* the search window was hidden and is expected on top: the override flags
\* turn a live "visible, not on top" into "not visible, on top"
C17_Witness ==
    /\ pc = "idle"
    /\ SEARCH_WINDOW_LABEL \in DiagnosedLabels
    /\ visibility_state[SEARCH_WINDOW_LABEL] = Some(FALSE)
    /\ on_top_state[SEARCH_WINDOW_LABEL] = Some(TRUE)
    /\ LET d == WindowDiagnostic(SEARCH_WINDOW_LABEL, Some(TRUE), Some(FALSE), TRUE, TRUE)
       IN d.is_visible = Some(FALSE) /\ d.always_on_top
    /\ LET d == WindowDiagnostic(SEARCH_WINDOW_LABEL, Some(TRUE), Some(FALSE), FALSE, FALSE)
       IN d.is_visible = Some(TRUE) /\ ~d.always_on_top

\* C18: should_float is true under a non-tiling compositor whatever is stored;
\* under Hyprland, Sway or River it is the stored override of the current
\* compositor when there is one and float_on_tiling otherwise.
C18_ShouldFloat ==
    quick_windows_should_float =
        IF wm \notin {"hyprland", "sway", "river"} THEN TRUE
        ELSE IF prefs.per_wm_overrides[wm] # None THEN Unwrap(prefs.per_wm_overrides[wm])
        ELSE prefs.float_on_tiling

\* under a non-tiling compositor the stored preferences say not to float, for
\* the compositor itself too, and the quick windows float all the same
C18_Witness ==
    /\ wm = "other"
    /\ IsSome(supplied)
    /\ ~prefs.float_on_tiling
    /\ prefs.per_wm_overrides["other"] = Some(FALSE)
    /\ quick_windows_should_float

\* C19: after a preference write under a tiling compositor the stored
\* preferences hold an override for it equal to the stored float_on_tiling,
\* and float_on_tiling and the other compositors' overrides are as supplied;
\* under a non-tiling compositor the stored preferences are the supplied ones.
C19_WriteNormalizes ==
    IsSome(supplied) =>
        LET given == Unwrap(supplied)
        IN IF wm \in {"hyprland", "sway", "river"}
           THEN /\ prefs.per_wm_overrides[wm] = Some(prefs.float_on_tiling)
                /\ prefs.float_on_tiling = given.float_on_tiling
                /\ \A w \in WindowManager \ {wm} :
                     prefs.per_wm_overrides[w] = given.per_wm_overrides[w]
           ELSE prefs = given

\* under hyprland a write supplied float_on_tiling = true with a stale
\* override false for hyprland and one for sway
C19_Witness ==
    /\ wm = "hyprland"
    /\ IsSome(supplied)
    /\ Unwrap(supplied).float_on_tiling
    /\ Unwrap(supplied).per_wm_overrides["hyprland"] = Some(FALSE)
    /\ Unwrap(supplied).per_wm_overrides["sway"] = Some(FALSE)
    /\ prefs.per_wm_overrides["hyprland"] = Some(TRUE)
    /\ prefs.per_wm_overrides["sway"] = Some(FALSE)

-----------------------------------------------------------------------------
(* Claims about the quick capture's result *)

\* C21: show_quick_add_window returns Ok when no text is selected: a quick
\* capture that ends at its selection read returns Ok to its caller.
C21_EmptySelectionOk ==
    [][(pc = "capture" /\ pc' = "idle") => result'.ok]_vars

-----------------------------------------------------------------------------
(* Claims about enabling the watchdog and the monitor task *)

\* run_monitor_loop got past spawning dbus-monitor
MonitorSpawned ==
    \/ mon = "reading"
    \/ mon = "ended" /\ wd.last_error # Some("dbus-monitor exited: spawn failed")

\* C22: the watchdog is enabled only if a tiling compositor was detected, the
\* disable flag is not set and the monitor process was spawned; stated for
\* the states in which the spawn is no longer outstanding.
C22_EnabledOnlyWhenMonitored ==
    /\ starts = 0 => ~wd.enabled
    /\ (wd.enabled /\ mon # "spawning") =>
          /\ wm \in {"hyprland", "sway", "river"}
          /\ ~disable_watchdog
          /\ MonitorSpawned

\* C23: when the monitor binary is missing or spawning it failed, the watchdog
\* is disabled and a note was recorded.
C23_UnavailableDisables ==
    wd.last_error \in {Some("dbus-monitor not available"),
                       Some("dbus-monitor exited: spawn failed")}
        => ~wd.enabled /\ wd.notes # <<>>

\* C24: monitor_running is true exactly while the monitor loop runs after a
\* successful spawn; once dbus-monitor's output has ended monitor_running
\* eventually becomes false, and after the loop has ended it stays false.
C24_RunningOnlyWhileLoopRuns ==
    /\ [](wd.monitor_running <=> mon = "reading")
    /\ [](OutputEnded => <>(~wd.monitor_running))
    /\ [](mon = "ended" => [](~wd.monitor_running))

\* the loop read a call, the output ended, and the loop has ended
C24_Witness ==
    /\ mon = "ended"
    /\ wd.enabled
    /\ ~wd.monitor_running
    /\ wd.last_method = Some("ReloadTheme")
    /\ wd.last_error = None

-----------------------------------------------------------------------------
(* Claims about the latency ring buffer *)

RECURSIVE SumUpTo(_, _)
SumUpTo(samples, k) == IF k = 0 THEN 0 ELSE samples[k] + SumUpTo(samples, k - 1)

\* C25: the snapshot's average_latency_ms is absent exactly when the ring
\* buffer is empty; otherwise it is the sum of the buffered samples divided
\* by their number, and there are at most 50 of them.
C25_AverageOfBuffer ==
    LET snapshot == diagnostics_snapshot(wd)
        held == wd.latencies
    IN /\ snapshot.average_latency_ms = None <=> held = <<>>
       /\ held # <<>> =>
            LET avg == Unwrap(snapshot.average_latency_ms)
            IN /\ avg.samples > 0
               /\ avg.sum * Len(held) = SumUpTo(held, Len(held)) * avg.samples
               /\ Len(held) <= 50

\* 49 samples were buffered and one more was recorded
C25_Witness ==
    /\ ops = 1
    /\ Len(wd.latencies) = 50
    /\ wd.success_count + wd.deadline_miss_count = 50
    /\ wd.last_latency_ms = Some(AgeCap)
    /\ diagnostics_snapshot(wd).average_latency_ms # None

BufferLength ==
    LET total == wd.success_count + wd.deadline_miss_count
    IN Len(wd.latencies) = IF total < 50 THEN total ELSE 50

\* C26: the ring buffer holds at most 50 samples in arrival order: a recorded
\* sample is appended, the oldest being evicted when the buffer already holds
\* 50; its length is min(50, success_count + deadline_miss_count).
C26_RingBuffer ==
    /\ BufferLength
    /\ [][/\ BufferLength'
          /\ wd' # wd =>
               LET sample == Unwrap(wd'.last_latency_ms)
               IN wd'.latencies =
                    IF Len(wd.latencies) = 50
                    THEN Append(Tail(wd.latencies), sample)
                    ELSE Append(wd.latencies, sample)]_vars

\* a 51st and a 52nd sample were recorded: the two oldest are gone
C26_Witness ==
    /\ ops = 2
    /\ Len(wd.latencies) = 50
    /\ wd.success_count + wd.deadline_miss_count = 52
    /\ wd.latencies[1] = 0
    /\ wd.latencies[2] = TickMs
    /\ wd.latencies[48] = 2 * TickMs
    /\ wd.latencies[49] = TickMs
    /\ wd.latencies[50] = AgeCap

-----------------------------------------------------------------------------
(* Claims about the notes *)

\* C27: the notes list holds at most 10 entries after any sequence of
\* start_watchdog calls and note recordings.
C27_NotesCapped == Len(wd.notes) <= 10

-----------------------------------------------------------------------------
(* Claims about the surfaces and their position *)

\* C28: a label has at most one surface: get_or_create returns the surface
\* the label has and builds nothing, and builds one only when the label has
\* none; no other step of show, hide, toggle or the close fallback brings a
\* surface into being.
C28_OneSurfacePerLabel ==
    [][/\ (pc = "get_or_create" /\ pc' # pc) =>
            IF windows[cur] # "none"
            THEN /\ windows' = windows
                 /\ created' = created
                 /\ pc' = AfterGetOrCreate(cmd)
            ELSE \/ /\ windows' = [windows EXCEPT ![cur] = "live"]
                    /\ created'
                    /\ pc' = AfterGetOrCreate(cmd)
                 \/ /\ windows' = windows
                    /\ pc' = "idle"
                    /\ ~result'.ok /\ result'.cause = "create"
       /\ \A l \in Labels :
            (windows[l] # "live" /\ windows'[l] = "live") =>
                pc = "get_or_create" /\ l = cur /\ windows[l] = "none"]_vars

\* a show built Search, and the next command on Search finds the surface and
\* builds nothing
C28_Witness ==
    /\ pc \in {"center", "hide", "toggle"}
    /\ cur = SEARCH_WINDOW_LABEL
    /\ ~created
    /\ windows[SEARCH_WINDOW_LABEL] = "live"
    /\ last_op[SEARCH_WINDOW_LABEL].did = "show"
    /\ last_op[SEARCH_WINDOW_LABEL].created

-----------------------------------------------------------------------------
(* Claims about the locks *)

\* no lock is held where the events block, no lock is acquired while another
\* is held, and every lock acquired is released before the events end
lock_discipline(events) ==
    /\ held_while_blocking(events) = {}
    /\ \A k \in 1..Len(events) :
         events[k][1] = "acquire" => held_after(events, k - 1) = {}
    /\ held_after(events, Len(events)) = {}

\* C30: at every step of a show, hide or toggle no shared-state lock is held
\* while the step sleeps or calls the toolkit, no lock is acquired while another
\* is held, and none stays held when the step ends; the monitor task keeps the
\* same discipline; so neither waits for the other while holding a lock, and
\* whenever a command is in progress and dbus-monitor has printed a call, the
\* monitor task can record it
C30_NoLockWhileBlocking ==
    /\ lock_discipline(StepEvents)
    /\ lock_discipline(monitor_read_line_events)
    /\ (pc # "idle" /\ mon = "reading" /\ lines # <<>> /\ Head(lines) # EndOfOutput)
         => ENABLED monitor_read_line

\* Search's show was triggered over D-Bus; its first focus attempt slept and
\* found the window unfocused, and the monitor task recorded the trigger then
C30_Witness ==
    /\ pc = "focus"
    /\ cmd = "show_search_window"
    /\ origin = "dbus"
    /\ attempts = 1
    /\ last_answer = "not_focused"
    /\ lines = <<>>
    /\ wd.last_method = Some("ShowSearch")
    /\ wd.pending[SEARCH_WINDOW_LABEL] = Some(0)

-----------------------------------------------------------------------------
(* Claims about triggers and outcomes *)

\* the step is show_window's call of record_focus_outcome
OutcomeStep == pc = "record_outcome" /\ pc' # pc

\* the step is the monitor task taking one printed line
TriggerStep == lines # <<>> /\ lines' = Tail(lines)

CountsKept ==
    /\ wd'.success_count = wd.success_count
    /\ wd'.deadline_miss_count = wd.deadline_miss_count
    /\ wd'.latencies = wd.latencies

\* C31: however the monitor's insertions and the outcomes interleave, an outcome
\* that finds an entry for its label removes it, records the entry's age as the
\* latency and adds one to exactly one of success_count and deadline_miss_count;
\* an outcome that finds none changes nothing; a trigger replaces the entry of
\* its label by a fresh one and counts nothing; and between the two an entry
\* only ages, so the age an outcome reads is the time since the latest trigger
C31_ConsumedOnceFromLatestTrigger ==
    [][ /\ OutcomeStep =>
             IF wd.enabled /\ IsSome(wd.pending[cur])
             THEN /\ wd'.pending = [wd.pending EXCEPT ![cur] = None]
                  /\ wd'.last_latency_ms = wd.pending[cur]
                  /\ wd'.success_count + wd'.deadline_miss_count
                       = wd.success_count + wd.deadline_miss_count + 1
                  /\ wd'.success_count >= wd.success_count
                  /\ wd'.deadline_miss_count >= wd.deadline_miss_count
             ELSE wd' = wd
        /\ TriggerStep =>
             IF IsSome(method_to_window(Head(lines)))
             THEN /\ wd'.pending = [wd.pending EXCEPT
                                      ![Unwrap(method_to_window(Head(lines)))] = Some(0)]
                  /\ CountsKept
             ELSE wd' = wd
        /\ (~OutcomeStep /\ ~TriggerStep) =>
             /\ CountsKept
             /\ \A l \in Labels :
                  IF IsSome(wd.pending[l])
                  THEN IsSome(wd'.pending[l])
                       /\ Unwrap(wd'.pending[l]) >= Unwrap(wd.pending[l])
                  ELSE wd'.pending[l] = None
      ]_vars

\* Search is being shown; a ShowSearch trigger was recorded before the show
\* settled, and a second ShowSearch call is printed and not yet read
C31_Witness ==
    /\ pc = "focus"
    /\ cur = SEARCH_WINDOW_LABEL
    /\ wd.pending[SEARCH_WINDOW_LABEL] = Some(show_settle_ms)
    /\ lines = <<"ShowSearch">>

-----------------------------------------------------------------------------
(* Claims about the stored capture *)

TakeStep ==
    pc = "idle" /\ pc' = "idle" /\ ops' = ops + 1 /\ result'.cmd = "take_quick_add_capture"

RecordStep ==
    pc = "idle" /\ pc' = "idle" /\ ops' = ops + 1 /\ result'.cmd = "record_quick_add_capture"

\* show_quick_add_window has shown its window and stores the text
StoreStep == pc = "record_visibility" /\ pc' = "idle" /\ cmd = "show_quick_add_window"

\* show_quick_add_window returns because the selection read failed or was blank
NoSelectionStep == pc = "capture" /\ pc' = "idle"

\* C32: a take returns what is stored and leaves nothing stored, so a take that
\* directly follows a take returns nothing; what is stored is what the latest
\* record, or the latest quick capture that was shown, put there; a quick
\* capture whose selection read failed or was blank leaves nothing stored; and
\* no other step touches the stored capture
C32_TakenOnce ==
    [][ /\ TakeStep => result'.value = quick_add_capture /\ quick_add_capture' = None
        /\ (TakeStep /\ result.cmd = "take_quick_add_capture") => result'.value = None
        /\ RecordStep => IsSome(result'.value) /\ quick_add_capture' = result'.value
        /\ StoreStep => quick_add_capture' = Some(text) /\ trim(text) # <<>>
        /\ NoSelectionStep => quick_add_capture' = None
        /\ ~(TakeStep \/ RecordStep \/ StoreStep \/ NoSelectionStep)
             => quick_add_capture' = quick_add_capture
      ]_vars

\* a quick capture was shown, a take followed it, and a second take returned nothing
C32_Witness ==
    /\ ops = 3
    /\ pc = "idle"
    /\ last_op[QUICK_ADD_WINDOW_LABEL].did = "show"
    /\ prev_op[QUICK_ADD_WINDOW_LABEL] = NoOp
    /\ result.cmd = "take_quick_add_capture"
    /\ result.value = None
    /\ quick_add_capture = None

-----------------------------------------------------------------------------
(* Claims about the toggle after a close *)

\* the latest completed command on Search was a hide that closed the surface,
\* and the running command is a toggle
ToggleAfterClose ==
    /\ cmd = "toggle_search_window"
    /\ last_op[SEARCH_WINDOW_LABEL].did = "close"

\* C33: a toggle that follows a hide of Search which fell back to closing builds
\* a new surface when the old one is gone, takes the show branch whatever the
\* toolkit answers about visibility, and ends having shown Search or with the
\* error of the build, the centring or the show request: never with a hide
C33_ToggleAfterCloseShows ==
    [][ ToggleAfterClose =>
          /\ (pc = "get_or_create" /\ pc' = "toggle" /\ windows[SEARCH_WINDOW_LABEL] = "none")
               => windows'[SEARCH_WINDOW_LABEL] = "live" /\ created'
          /\ (pc = "toggle" /\ pc' # pc) => pc' = "center"
          /\ pc' # "hide"
          /\ (pc # "idle" /\ pc' = "idle") =>
               /\ result'.did \in {"show", "none"}
               /\ result'.ok => result'.did = "show"
               /\ ~result'.ok => result'.cause \in {"create", "center", "show"}
      ]_vars

\* Search was shown, its hide fell back to closing, and the toggle that follows
\* chose to show although the toolkit still reports the closing surface visible
C33_Witness ==
    /\ pc = "center"
    /\ cmd = "toggle_search_window"
    /\ prev_op[SEARCH_WINDOW_LABEL].did = "show"
    /\ last_op[SEARCH_WINDOW_LABEL].did = "close"
    /\ windows[SEARCH_WINDOW_LABEL] = "closing"
    /\ last_answer = "visible"

-----------------------------------------------------------------------------
(* Claims about the preferences once written *)

\* C34: under Hyprland, Sway or River, once update_quick_window_preferences(p)
\* has been called the floating policy is p.float_on_tiling of the latest p,
\* whatever override p carried for the current compositor
C34_PolicyIsFloatOnTiling ==
    (wm \in {"hyprland", "sway", "river"} /\ IsSome(supplied))
        => quick_windows_should_float = Unwrap(supplied).float_on_tiling

\* under sway the write asked not to float on tiling compositors and carried
\* an override true for sway: the policy is not to float
C34_Witness ==
    /\ wm = "sway"
    /\ IsSome(supplied)
    /\ ~Unwrap(supplied).float_on_tiling
    /\ Unwrap(supplied).per_wm_overrides["sway"] = Some(TRUE)
    /\ ~quick_windows_should_float

-----------------------------------------------------------------------------
(* Claims about a show request that fails *)

\* show_window returns because the toolkit's show request failed
ShowRequestFails == pc = "show" /\ pc' = "idle"

\* C35: when the show request fails, show_window returns the error having made
\* no focus attempt, and the FocusResult and counters of every label, the
\* expected visibility and the watchdog state, pending entries included, are
\* as they were when show_window was entered
C35_FailedShowLeavesState ==
    [][ ShowRequestFails =>
          /\ ~result'.ok /\ result'.cause = "show" /\ result'.did = "none"
          /\ attempts = 0 /\ result'.attempts = 0 /\ focus_requests = 0
          /\ result'.forwarded = <<>>
          /\ focus_metrics' = focus_metrics
          /\ counters' = counters
          /\ focus_counter' = focus_counter
          /\ visibility_state' = visibility_state
          /\ wd' = wd
      ]_vars

\* a show of Search failed at its show request; the trigger the monitor task
\* recorded for Search is still pending, and no FocusResult is stored
C35_Witness ==
    /\ pc = "idle"
    /\ result.cmd = "show_search_window"
    /\ ~result.ok
    /\ result.cause = "show"
    /\ IsSome(wd.pending[SEARCH_WINDOW_LABEL])
    /\ focus_metrics[SEARCH_WINDOW_LABEL] = None
    /\ visibility_state[SEARCH_WINDOW_LABEL] = Some(FALSE)

-----------------------------------------------------------------------------
(* Claims about the update_settings command *)

\* the step is one call of the update_settings command
UpdateStep ==
    pc = "idle" /\ pc' = "idle" /\ ops' = ops + 1 /\ result'.cmd = "update_settings"

\* C36: when update_settings returns Ok, every Search and quick-capture surface
\* that exists has as its always-on-top expectation the floating policy of the
\* preferences just stored, and the expectations of Settings and Management
\* are what they were
C36_ExpectationsFollowWrite ==
    [][ (UpdateStep /\ result'.ok) =>
          /\ \A l \in {SEARCH_WINDOW_LABEL, QUICK_ADD_WINDOW_LABEL} :
               windows[l] # "none" => on_top_state'[l] = Some(quick_windows_should_float')
          /\ \A l \in {SETTINGS_WINDOW_LABEL, MANAGEMENT_WINDOW_LABEL} :
               on_top_state'[l] = on_top_state[l]
      ]_vars

\* the quick capture was shown under hyprland with the default policy, and a
\* settings write that asked not to float has turned its expectation to false
C36_Witness ==
    /\ wm = "hyprland"
    /\ result.cmd = "update_settings"
    /\ result.ok
    /\ last_op[QUICK_ADD_WINDOW_LABEL].did = "show"
    /\ windows[QUICK_ADD_WINDOW_LABEL] = "live"
    /\ ~quick_windows_should_float
    /\ on_top_state[QUICK_ADD_WINDOW_LABEL] = Some(FALSE)

\* C37: when SettingsService::update_settings returns an error, for a failed
\* validation or a failed database write, the quick-window preferences the
\* window layer uses are the ones it used before the call
C37_ErrorLeavesPreferences ==
    [][ (UpdateStep /\ result'.cause \in {"validation", "database"}) => prefs' = prefs ]_vars

\* C38: once update_backup_config has enabled backups and they stay enabled,
\* the backup loop eventually attempts a backup
C38_EnabledLeadsToBackup ==
    <>[](managed_config.enabled) => <>(backup_attempts > 0)

====
